---- MODULE Spec2Model ----
(***************************************************************************)
(* SysEx dump -> ZPK1 container pipeline of plugins/_tools/sysex_pack.py,  *)
(* the container reader of plugins/_tools/pack_index.py and the SysEx      *)
(* helpers of tools/extraction/syx_tools.py.                               *)
(*                                                                         *)
(* Byte strings are sequences of integers in 0..255.  Python positions are *)
(* 0-based; a Python position p is element p + 1 of the TLA+ sequence.     *)
(***************************************************************************)
EXTENDS Integers, Sequences, FiniteSets, TLC

VARIABLES
    pc,         \* position of the modelled run
    raw,        \* bytes of the input file (read_syx)
    i,          \* extract_frames: the outer loop's index
    frames,     \* extract_frames: the frames emitted so far
    spans,      \* history: <<start, end>> (0-based, inclusive) of each frame
    msgs,       \* list(iter_sysex_messages(raw))
    devspec,    \* the device specification (--spec), or NoSpec
    models,     \* what load_zplane_models returns
    given,      \* history: the record list a stage was called with
    entries,    \* the record list (list[dict]) of the run
    packed,     \* pack's result: the container bytes, or the exception raised
    scanned,    \* pack_index.scan_pack's result on the container
    core,       \* split_and_unpack: a message's core bytes
    unpacked,   \* the unpacker's output for core
    reunpacked, \* the unpacker's output for its own output
    radius,     \* poles_to_biquad_coeffs: r, in units of 1/Scale
    cosTheta,   \* poles_to_biquad_coeffs: math.cos(theta), in units of 1/Scale
    coeffs,     \* poles_to_biquad_coeffs: the returned tuple
    unpacked7,  \* sysex_pack.unpack7's output for core
    sidecar,    \* what write_sidecar_json wrote next to the container
    tool,       \* the command-line tool of the run
    args,       \* its parsed arguments
    files,      \* the files it iterates over, in iteration order
    fileIdx,    \* number of loop iterations completed
    outputs,    \* history: the files written (or items collected), in order
    tally,      \* the tool's counter (count, total, len(samples), processed_count)
    errors,     \* batch_parse_sysex: error_count
    ret,        \* what the tool's main function returned
    status      \* the process's exit status

vars == <<pc, raw, i, frames, spans, msgs, devspec, models, given, entries,
          packed, scanned, core, unpacked, reunpacked, radius, cosTheta, coeffs,
          unpacked7, sidecar, tool, args, files, fileIdx, outputs, tally, errors,
          ret, status>>

extractVars == <<raw, i, frames, spans, msgs>>
recordVars == <<devspec, models, given, entries, packed, scanned, sidecar>>
unpackVars == <<core, unpacked, reunpacked, unpacked7>>
coefVars == <<radius, cosTheta, coeffs>>
batchVars == <<tool, args, files, fileIdx, outputs, tally, errors, ret, status>>

----------------------------------------------------------------------------
(* Values that stand for Python's None and for results not yet computed.   *)

TypeError == "TypeError"
StructError == "struct.error"

\* a key of the device specification that is missing (spec.get(...) is None)
NoneId == -1

\* main's `spec = None` (no --spec given); `given` tells it from a loaded one
NoSpec == [given |-> FALSE, manufacturerId |-> <<>>, familyId |-> NoneId,
           editor |-> NoneId, checksum |-> ""]

\* meta['sub'] is None (the command carries no subtype byte)
SubNone == -1
\* the record has no 'meta', or its meta has no 'sub' key
SubAbsent == -2

----------------------------------------------------------------------------
(* Integer and byte helpers.                                               *)

RECURSIVE BitAnd(_, _)
BitAnd(a, b) ==
    IF a = 0 \/ b = 0 THEN 0
    ELSE (a % 2) * (b % 2) + 2 * BitAnd(a \div 2, b \div 2)

RECURSIVE BitOr(_, _)
BitOr(a, b) ==
    IF a = 0 THEN b
    ELSE IF b = 0 THEN a
    ELSE (IF a % 2 = 1 \/ b % 2 = 1 THEN 1 ELSE 0) + 2 * BitOr(a \div 2, b \div 2)

RECURSIVE BitXor(_, _)
BitXor(a, b) ==
    IF a = 0 THEN b
    ELSE IF b = 0 THEN a
    ELSE ((a + b) % 2) + 2 * BitXor(a \div 2, b \div 2)

RECURSIVE Pow2(_)
Pow2(k) == IF k = 0 THEN 1 ELSE 2 * Pow2(k - 1)

Shl(a, k) == a * Pow2(k)
Shr(a, k) == a \div Pow2(k)

Min(a, b) == IF a < b THEN a ELSE b
Max(a, b) == IF a > b THEN a ELSE b
Abs(a) == IF a < 0 THEN -a ELSE a

\* Python's s[lo:hi] for 0 <= lo, on a sequence
Slice(s, lo, hi) == SubSeq(s, lo + 1, Min(hi, Len(s)))

\* Python's s[lo:]
SliceFrom(s, lo) == SubSeq(s, lo + 1, Len(s))

RECURSIVE Concat(_)
Concat(ss) == IF ss = <<>> THEN <<>> ELSE Head(ss) \o Concat(Tail(ss))

RECURSIVE SumSeq(_)
SumSeq(s) == IF s = <<>> THEN 0 ELSE Head(s) + SumSeq(Tail(s))

\* all sequences over S of length at most n
SeqsUpTo(S, n) == UNION {[1..k -> S] : k \in 0..n}

----------------------------------------------------------------------------
(* Frame Extractor: sysex_pack.extract_frames, syx_tools.iter_sysex_messages *)

F0 == 240
F7 == 247

\* a scan that runs on to the last 0xF7 of the buffer
ScanToLastF7(b, j) ==
    LET later == {q \in j..(Len(b) - 1) : b[q + 1] = F7}
    IN  IF later = {} THEN Len(b) ELSE CHOOSE q \in later : \A x \in later : x <= q

\* the inner loop `while j < len(raw) and raw[j] != 0xF7: j += 1` from j
RECURSIVE ScanToF7(_, _)
ScanToF7(b, j) ==
    IF j < Len(b) /\ b[j + 1] # F7 THEN ScanToF7(b, j + 1) ELSE j

\* One iteration of extract_frames' outer loop at index k: the next index,
\* and the span of the frame it appends (<<>> when it appends none).
ExtractIter(b, k) ==
    IF b[k + 1] = F0
    THEN LET j == ScanToF7(b, k + 1)
         IN  IF j < Len(b) /\ b[j + 1] = F7
             THEN [next |-> j + 1, span |-> <<<<k, j>>>>]
             ELSE [next |-> k + 1, span |-> <<>>]
    ELSE [next |-> k + 1, span |-> <<>>]

SpanBytes(b, sp) == Slice(b, sp[1], sp[2] + 1)

\* extract_frames run to completion from index k
RECURSIVE ExtractFrom(_, _)
ExtractFrom(b, k) ==
    IF k < Len(b)
    THEN LET it == ExtractIter(b, k)
         IN  [n \in 1..Len(it.span) |-> SpanBytes(b, it.span[n])]
                 \o ExtractFrom(b, it.next)
    ELSE <<>>

extract_frames(b) == ExtractFrom(b, 0)

\* the loop `while i < n and blob[i] != F0: i += 1`
RECURSIVE SkipToF0(_, _)
SkipToF0(b, k) ==
    IF k < Len(b) /\ b[k + 1] # F0 THEN SkipToF0(b, k + 1) ELSE k

RECURSIVE IterFrom(_, _)
IterFrom(b, k) ==
    IF k < Len(b)
    THEN LET s == SkipToF0(b, k)
         IN  IF s >= Len(b) THEN <<>>
             ELSE LET j == ScanToF7(b, s + 1)
                  IN  IF j >= Len(b) THEN <<>>
                      ELSE <<Slice(b, s, j + 1)>> \o IterFrom(b, j + 1)
    ELSE <<>>

iter_sysex_messages(b) == IterFrom(b, 0)

----------------------------------------------------------------------------
(* Payload Unpacker: syx_tools.unpack_7bit and split_and_unpack            *)

\* a decoder that takes data byte k's high bit from bit k + 1 of the lead byte
Unpack7ByteNextBit(msb, k, b) == BitOr(b, Shl(BitAnd(Shr(msb, k + 1), 1), 7))

\* the byte unpack_7bit appends for data byte b at position k of its group
Unpack7Byte(msb, k, b) == BitOr(b, Shl(BitAnd(Shr(msb, k), 1), 7))

RECURSIVE Unpack7From(_, _)
Unpack7From(p, k) ==
    IF k < Len(p)
    THEN LET msb == p[k + 1]
             grp == Slice(p, k + 1, k + 8)
         IN  [n \in 1..Len(grp) |-> Unpack7Byte(msb, n - 1, grp[n])]
                 \o Unpack7From(p, k + 8)
    ELSE <<>>

unpack_7bit(payload) == Unpack7From(payload, 0)

\* sysex_pack.unpack7, lines 52-54: the bytes appended for one chunk
Unpack7Chunk(chunk) ==
    [n \in 1..(Len(chunk) - 1) |->
        BitOr(chunk[n + 1], Shl(BitAnd(Shr(chunk[1], n - 1), 1), 7))]

\* unpack7's loop from index k; `if len(chunk) < 2: break` ends it
RECURSIVE Unpack7Loop(_, _)
Unpack7Loop(block, k) ==
    IF k < Len(block)
    THEN LET chunk == Slice(block, k, k + 8)
         IN  IF Len(chunk) < 2 THEN <<>>
             ELSE Unpack7Chunk(chunk) \o Unpack7Loop(block, k + 8)
    ELSE <<>>

unpack7(block) == Unpack7Loop(block, 0)

\* `any(b & 0x80 for b in core)`
AnyHighBit(c) == \E n \in 1..Len(c) : BitAnd(c[n], 128) # 0

\* the body of split_and_unpack's loop for one core
UnpackCore(c) == IF AnyHighBit(c) THEN c ELSE unpack_7bit(c)

\* m[1:-1]
StripDelims(m) == IF Len(m) >= 2 THEN SubSeq(m, 2, Len(m) - 1) ELSE <<>>

split_and_unpack(b) ==
    LET ms == iter_sysex_messages(b)
    IN  [n \in 1..Len(ms) |-> UnpackCore(StripDelims(ms[n]))]

----------------------------------------------------------------------------
(* Message Canonicalizer: sysex_pack._proteus_parse and canonize           *)

\* _proteus_parse's `return None`
NoMatch == [match |-> FALSE]

\* commands whose data starts with a subtype byte (line 76)
SubtypeCommands == {16, 17, 24, 26, 27, 97}

OnesComplement7 == "ones_complement_7bit"

StartsWith(p, pre) == Len(p) >= Len(pre) /\ SubSeq(p, 1, Len(pre)) = pre

\* `(~s) & 0x7F` of Python's unbounded integers
Not7(s) == (-s - 1) % 128

\* `sum(b & 0x7F for b in data[:-1]) & 0x7F`
Sum7(d) == SumSeq([n \in 1..Len(d) |-> BitAnd(d[n], 127)]) % 128

\* a checksum check without the 0x7F "ignore" value
ChecksumOkNoIgnore(spec, data) ==
    IF spec.checksum = OnesComplement7 /\ Len(data) >= 1
    THEN Not7(Sum7(SubSeq(data, 1, Len(data) - 1))) = BitAnd(data[Len(data)], 127)
    ELSE TRUE

\* lines 81-96: whether the checksum check lets validChecksum stay True
ChecksumOk(spec, data) ==
    IF spec.checksum = OnesComplement7 /\ Len(data) >= 1
    THEN LET exp == BitAnd(data[Len(data)], 127)
         IN  IF exp # 127
             THEN Not7(Sum7(SubSeq(data, 1, Len(data) - 1))) = exp
             ELSE TRUE
    ELSE TRUE

\* a parser that takes the subtype byte out of the data it returns
_proteus_parseSubRemoved(payload, spec) ==
    LET mids == spec.manufacturerId
        off == Len(mids)
    IN  IF mids = <<>> \/ spec.familyId = NoneId \/ spec.editor = NoneId
            THEN NoMatch
        ELSE IF Len(payload) < off + 4 THEN NoMatch
        ELSE IF ~StartsWith(payload, mids) THEN NoMatch
        ELSE LET family == payload[off + 1]
                 dev_id == payload[off + 2]
                 ed == payload[off + 3]
                 cmd == payload[off + 4]
                 data == SliceFrom(payload, off + 4)
                 sub == IF Len(data) >= 1 /\ cmd \in SubtypeCommands
                        THEN data[1] ELSE SubNone
             IN  IF family # spec.familyId \/ ed # spec.editor THEN NoMatch
                 ELSE [match |-> TRUE, dev |-> dev_id, cmd |-> cmd, sub |-> sub,
                       validChecksum |-> ChecksumOk(spec, data),
                       data |-> IF sub = SubNone THEN data ELSE Tail(data)]

\* The returned dict's family always equals spec.familyId (line 78) and is
\* not kept.
_proteus_parse(payload, spec) ==
    LET mids == spec.manufacturerId
        off == Len(mids)
    IN  IF mids = <<>> \/ spec.familyId = NoneId \/ spec.editor = NoneId
            THEN NoMatch
        ELSE IF Len(payload) < off + 4 THEN NoMatch
        ELSE IF ~StartsWith(payload, mids) THEN NoMatch
        ELSE LET family == payload[off + 1]
                 dev_id == payload[off + 2]
                 ed == payload[off + 3]
                 cmd == payload[off + 4]
                 data == SliceFrom(payload, off + 4)
                 sub == IF Len(data) >= 1 /\ cmd \in SubtypeCommands
                        THEN data[1] ELSE SubNone
             IN  IF family # spec.familyId \/ ed # spec.editor THEN NoMatch
                 ELSE [match |-> TRUE, dev |-> dev_id, cmd |-> cmd, sub |-> sub,
                       validChecksum |-> ChecksumOk(spec, data), data |-> data]

\* A record of the list: the dict's id, type, flags and data, and its meta:
\*   sub    meta['sub'], SubNone, or SubAbsent
\*   kind   which stage made it, standing for the meta keys that stage sets
\*   valid  meta['validChecksum'] ("n/a" when the meta has none)
\*   dev    meta['dev'] (-1 when the meta has none)
\*   idx    meta['idx'] of a heuristic record, meta['source_id'] of a ZMF1
\*          record (-1 otherwise)
\*   model  meta['model'] of a ZMF1 record ("" otherwise)
Rec(id, type, flags, sub, data, kind, valid, dev, idx, model) ==
    [id |-> id, type |-> type, flags |-> flags, sub |-> sub, data |-> data,
     kind |-> kind, valid |-> valid, dev |-> dev, idx |-> idx, model |-> model]

\* a canonizer that drops a message whose checksum does not match
CanonizeOneStrict(f, idx, spec) ==
    LET payload == StripDelims(f)
    IN  IF spec.given /\ spec.familyId # NoneId
        THEN LET meta == _proteus_parse(payload, spec)
             IN  IF ~meta.match \/ ~meta.validChecksum THEN <<>>
                 ELSE <<Rec(idx, meta.cmd, 0, meta.sub, meta.data, "canonical",
                            "valid", meta.dev, -1, "")>>
        ELSE <<Rec(idx, 0, 0, SubAbsent, payload, "raw", "n/a", -1, -1, "")>>

\* the dict canonize appends for frame number idx (0-based), <<>> for none
CanonizeOne(f, idx, spec) ==
    LET payload == StripDelims(f)
    IN  IF spec.given /\ spec.familyId # NoneId
        THEN LET meta == _proteus_parse(payload, spec)
             IN  IF ~meta.match THEN <<>>
                 ELSE <<Rec(idx, meta.cmd, 0, meta.sub, meta.data, "canonical",
                            IF meta.validChecksum THEN "valid" ELSE "invalid",
                            meta.dev, -1, "")>>
        ELSE <<Rec(idx, 0, 0, SubAbsent, payload, "raw", "n/a", -1, -1, "")>>

RECURSIVE CanonizeFrom(_, _, _)
CanonizeFrom(fs, k, spec) ==
    IF k < Len(fs)
    THEN CanonizeOne(fs[k + 1], k, spec) \o CanonizeFrom(fs, k + 1, spec)
    ELSE <<>>

canonize(fs, spec) == CanonizeFrom(fs, 0, spec)

----------------------------------------------------------------------------
(* Preset Assembler: sysex_pack.assemble_preset                            *)

\* `int(meta.get('sub') or 0)`
SubOrZero(e) == IF e.sub < 0 THEN 0 ELSE e.sub

\* line 144: the record is merged as a continuation packet
IsContinuation(e) ==
    e.type = 16 /\ SubOrZero(e) \in {2, 4} /\ Len(e.data) >= 3

\* `seq = data[0] | (data[1] << 7)`
PacketSeq(d) == BitOr(d[1], Shl(d[2], 7))

\* `payload = data[2:-1]`
PacketPayload(d) == SubSeq(d, 3, Len(d) - 1)

\* a dict store that keeps the value a key already has
PutKeepFirst(parts, k, v) ==
    [x \in DOMAIN parts \cup {k} |-> IF x \in DOMAIN parts THEN parts[x] ELSE v]

\* `groups[0][seq] = payload` on the dict `parts`
Put(parts, k, v) ==
    [x \in DOMAIN parts \cup {k} |-> IF x = k THEN v ELSE parts[x]]

\* groups[0] after the loop over the remaining records es (lines 139-147)
RECURSIVE CollectParts(_, _)
CollectParts(es, parts) ==
    IF es = <<>> THEN parts
    ELSE LET e == Head(es)
         IN  CollectParts(Tail(es),
                 IF IsContinuation(e)
                 THEN Put(parts, PacketSeq(e.data), PacketPayload(e.data))
                 ELSE parts)

LastKey(keys) == CHOOSE x \in keys : \A y \in keys : y <= x

\* the key `sorted(parts.keys())` yields first
FirstKey(keys) == CHOOSE x \in keys : \A y \in keys : x <= y

\* lines 154-155: `for i in sorted(parts.keys()): assembled += parts[i]`
RECURSIVE ConcatSorted(_, _)
ConcatSorted(parts, keys) ==
    IF keys = {} THEN <<>>
    ELSE LET k == FirstKey(keys)
         IN  parts[k] \o ConcatSorted(parts, keys \ {k})

\* `max([e.get('id', 0) for e in entries] + [0])`
RECURSIVE MaxId(_)
MaxId(es) == IF es = <<>> THEN 0 ELSE Max(Head(es).id, MaxId(Tail(es)))

\* the bytearray `assembled` at line 156
AssembledBytes(es) ==
    LET parts == CollectParts(es, <<>>)
    IN  ConcatSorted(parts, DOMAIN parts)

\* an assembler that appends the record whenever a packet was collected
assemble_presetWheneverCollected(es) ==
    LET assembled == AssembledBytes(es)
    IN  IF DOMAIN CollectParts(es, <<>>) # {}
        THEN Append(es, Rec(MaxId(es) + 1, 16, 0, 254, assembled,
                            "assembled", "n/a", -1, -1, ""))
        ELSE es

\* lines 151-164: `if groups:` ... `if assembled:` entries.append(...)
assemble_preset(es) ==
    LET assembled == AssembledBytes(es)
    IN  IF assembled # <<>>
        THEN Append(es, Rec(MaxId(es) + 1, 16, 0, 254, assembled,
                            "assembled", "n/a", -1, -1, ""))
        ELSE es

----------------------------------------------------------------------------
(* Header-Driven Segmenter: _parse_preset_header_blob, segment_assembled   *)

HeaderMinLen == 17
LayFiltSize == 14
LayEnvSize == 92

\* a header parser that accepts a blob one byte shorter
_parse_preset_header_blobShorter(blob) ==
    IF Len(blob) < HeaderMinLen - 1
    THEN [ok |-> FALSE, sub |-> 0, preset |-> 0, data_bytes |-> 0, counts |-> <<>>]
    ELSE [ok |-> TRUE,
          sub |-> blob[1],
          preset |-> BitOr(blob[2], Shl(blob[3], 8)),
          data_bytes |-> BitOr(BitOr(blob[4], Shl(blob[5], 8)),
                               BitOr(Shl(blob[6], 16), Shl(blob[7], 24))),
          counts |-> Slice(blob, 7, 17)]

\* _parse_preset_header_blob; ok = FALSE is `return None`
_parse_preset_header_blob(blob) ==
    IF Len(blob) < HeaderMinLen
    THEN [ok |-> FALSE, sub |-> 0, preset |-> 0, data_bytes |-> 0, counts |-> <<>>]
    ELSE [ok |-> TRUE,
          sub |-> blob[1],
          preset |-> BitOr(blob[2], Shl(blob[3], 8)),
          data_bytes |-> BitOr(BitOr(blob[4], Shl(blob[5], 8)),
                               BitOr(Shl(blob[6], 16), Shl(blob[7], 24))),
          counts |-> Slice(blob, 7, 17)]

\* position of the first record with type 0x10 and meta sub = s, 0 for None
FirstTyped(es, s) ==
    LET hits == {k \in 1..Len(es) : es[k].type = 16 /\ es[k].sub = s}
    IN  IF hits = {} THEN 0 ELSE CHOOSE k \in hits : \A m \in hits : k <= m

\* a carve from the front of the blob
HeadBytes(asm_data, need) == SubSeq(asm_data, 1, need)

\* `tail = asm_data[-need:]` for 0 < need <= len(asm_data)
TailBytes(asm_data, need) ==
    SubSeq(asm_data, Len(asm_data) - need + 1, Len(asm_data))

\* a segmenter whose first record takes the largest id in use
segment_assembledReusingId(es) ==
    LET h == FirstTyped(es, 1)
        a == FirstTyped(es, 254)
    IN  IF h = 0 \/ a = 0 THEN es
        ELSE LET hdr == _parse_preset_header_blob(es[h].data)
                 asm_data == es[a].data
             IN  IF ~hdr.ok THEN es
                 ELSE LET lay_filt == hdr.counts[7]
                          lay_env == hdr.counts[9]
                          need == lay_filt * LayFiltSize + lay_env * LayEnvSize
                      IN  IF need = 0 \/ need > Len(asm_data) THEN es
                          ELSE LET tail == TailBytes(asm_data, need)
                                   filt_blob == Slice(tail, 0, lay_filt * LayFiltSize)
                                   next_id == MaxId(es)
                               IN  es \o [k \in 1..lay_filt |->
                                       Rec(next_id + k - 1, 16, 0, 34,
                                           Slice(filt_blob, (k - 1) * LayFiltSize,
                                                 k * LayFiltSize),
                                           "heuristic", "n/a", -1, k - 1, "")]

\* segment_assembled (lines 316-348)
segment_assembled(es) ==
    LET h == FirstTyped(es, 1)
        a == FirstTyped(es, 254)
    IN  IF h = 0 \/ a = 0 THEN es
        ELSE LET hdr == _parse_preset_header_blob(es[h].data)
                 asm_data == es[a].data
             IN  IF ~hdr.ok THEN es
                 ELSE LET lay_filt == hdr.counts[7]
                          lay_env == hdr.counts[9]
                          need == lay_filt * LayFiltSize + lay_env * LayEnvSize
                      IN  IF need = 0 \/ need > Len(asm_data) THEN es
                          ELSE LET tail == TailBytes(asm_data, need)
                                   filt_blob == Slice(tail, 0, lay_filt * LayFiltSize)
                                   next_id == MaxId(es) + 1
                               IN  es \o [k \in 1..lay_filt |->
                                       Rec(next_id + k - 1, 16, 0, 34,
                                           Slice(filt_blob, (k - 1) * LayFiltSize,
                                                 k * LayFiltSize),
                                           "heuristic", "n/a", -1, k - 1, "")]

----------------------------------------------------------------------------
(* Little-endian fields of struct.pack / struct.unpack_from                *)

RECURSIVE LE(_, _)
LE(n, w) == IF w = 0 THEN <<>> ELSE <<n % 256>> \o LE(n \div 256, w - 1)

\* the unsigned little-endian integer in the w bytes at Python position p
RECURSIVE UIntAt(_, _, _)
UIntAt(b, p, w) == IF w = 0 THEN 0 ELSE b[p + 1] + 256 * UIntAt(b, p + 1, w - 1)

\* largest value struct's 'H' packs; a larger one raises struct.error
U16Max == 65535

----------------------------------------------------------------------------
(* Coefficient Synthesizer: generate_zmf1_entry, augment_with_zmf1         *)

ZMF1Magic == <<90, 77, 70, 49>>
NumFrames == 11
NumSections == 6
SampleRateRef == 48000

\* line 294: the model names indexed by data[0] % 3
ModelNames == <<"vowel_pair", "bell_pair", "low_pair">>

\* struct.pack('<fffff', b0, b1, b2, a1, a2): five 32-bit floats.  The poles
\* come from models.json and the IEEE-754 images are not modelled: only the
\* 20 bytes each section occupies are.
SectionBytes == [n \in 1..20 |-> 0]

\* a blob whose header announces NumSections sections per frame and whose
\* frames hold one fewer
generate_zmf1_entryShortFrames(model_id, num_frames) ==
    ZMF1Magic \o LE(1, 2) \o LE(model_id, 2) \o <<num_frames>> \o <<NumSections>>
        \o LE(SampleRateRef, 4) \o <<0, 0>>
        \o Concat([n \in 1..(num_frames * (NumSections - 1)) |-> SectionBytes])

generate_zmf1_entry(model_id, num_frames) ==
    ZMF1Magic \o LE(1, 2) \o LE(model_id, 2) \o <<num_frames>> \o <<NumSections>>
        \o LE(SampleRateRef, 4) \o <<0, 0>>
        \o Concat([n \in 1..(num_frames * NumSections) |-> SectionBytes])

\* zmf1_validate.validate_zmf1_header: the sizes and ranges it tests
ZMF1HeaderSize == 16
MaxZMF1Frames == 64
MaxZMF1Sections == 6

\* validate_zmf1_header(data)[0]; `magic != 0x31464D5A` on the '<I' field is
\* the comparison of the first four bytes with 'ZMF1'
validate_zmf1_header(data) ==
    IF Len(data) < ZMF1HeaderSize THEN FALSE
    ELSE LET version == UIntAt(data, 4, 2)
             num_frames == data[9]
             num_sections == data[10]
             expected_size == ZMF1HeaderSize + num_frames * num_sections * 5 * 4
         IN  /\ Slice(data, 0, 4) = ZMF1Magic
             /\ version = 1
             /\ ~(num_frames = 0 \/ num_frames > MaxZMF1Frames)
             /\ ~(num_sections = 0 \/ num_sections > MaxZMF1Sections)
             /\ ~(Len(data) < expected_size)

\* the records lines 286-312 append for the records es, ids from next_id
RECURSIVE AugmentFrom(_, _, _)
AugmentFrom(es, next_id, mdl) ==
    IF es = <<>> THEN <<>>
    ELSE LET e == Head(es)
             model_idx == e.data[1] % 3
         IN  IF e.type = 16 /\ e.sub = 34 /\ Len(e.data) >= 14
                 /\ ModelNames[model_idx + 1] \in mdl.names
             THEN <<Rec(next_id, 23117, 17969, SubAbsent,
                        generate_zmf1_entry(model_idx, NumFrames),
                        "zmf1", "n/a", -1, e.id, ModelNames[model_idx + 1])>>
                      \o AugmentFrom(Tail(es), next_id + 1, mdl)
             ELSE AugmentFrom(Tail(es), next_id, mdl)

\* an augmenter that returns the new records without the list it was given
augment_with_zmf1OnlyNew(es, mdl) ==
    IF ~mdl.loaded THEN es
    ELSE AugmentFrom(es, MaxId(es) + 1, mdl)

\* mdl.loaded = FALSE is load_zplane_models returning None (no models.json)
augment_with_zmf1(es, mdl) ==
    IF ~mdl.loaded THEN es
    ELSE es \o AugmentFrom(es, MaxId(es) + 1, mdl)

----------------------------------------------------------------------------
(* Container Packer: sysex_pack.pack                                       *)

MAGIC == <<90, 80, 75, 49>>
\* `entry_size = 4 + 2 + 2 + 2 + 4 + 4`
EntrySize == 18
HeaderSize == 8

\* a running offset that starts at the table instead of after it
FirstOffsetAtTable(count) == HeaderSize

\* `offset = 4 + 2 + 2 + len(entries) * entry_size`
FirstOffset(count) == HeaderSize + count * EntrySize

\* whether struct.pack('<IHHHII', ...) accepts the 'H' fields of the row
RowFits(e) == e.type \in 0..U16Max /\ e.sub \in -2..U16Max /\ e.flags \in 0..U16Max

\* a table row with the subtype and flags fields in each other's place
PackRowSwapped(e, offset) ==
    LE(e.id, 4) \o LE(e.type, 2) \o LE(e.flags, 2)
        \o LE(IF e.sub = SubAbsent THEN 0 ELSE e.sub, 2)
        \o LE(offset, 4) \o LE(Len(e.data), 4)

\* line 387: the table row of record e at the running offset
PackRow(e, offset) ==
    LE(e.id, 4) \o LE(e.type, 2) \o LE(IF e.sub = SubAbsent THEN 0 ELSE e.sub, 2)
        \o LE(e.flags, 2) \o LE(offset, 4) \o LE(Len(e.data), 4)

\* lines 382-389 for the remaining records es: the exception raised, if any,
\* else the table rows and the blob region
RECURSIVE PackLoop(_, _)
PackLoop(es, offset) ==
    IF es = <<>> THEN [err |-> "", table |-> <<>>, blobs |-> <<>>]
    ELSE LET e == Head(es)
         IN  IF e.sub = SubNone
                 THEN [err |-> TypeError, table |-> <<>>, blobs |-> <<>>]
             ELSE IF ~RowFits(e)
                 THEN [err |-> StructError, table |-> <<>>, blobs |-> <<>>]
             ELSE LET rest == PackLoop(Tail(es), offset + Len(e.data))
                  IN  IF rest.err # "" THEN rest
                      ELSE [err |-> "",
                            table |-> PackRow(e, offset) \o rest.table,
                            blobs |-> e.data \o rest.blobs]

\* err = "" when pack returns; otherwise the exception that leaves it
pack(es) ==
    IF Len(es) > U16Max THEN [err |-> StructError, bytes |-> <<>>]
    ELSE LET body == PackLoop(es, FirstOffset(Len(es)))
         IN  IF body.err # "" THEN [err |-> body.err, bytes |-> <<>>]
             ELSE [err |-> "",
                   bytes |-> MAGIC \o LE(1, 2) \o LE(Len(es), 2)
                                 \o body.table \o body.blobs]

----------------------------------------------------------------------------
(* Index/Query Reader: pack_index.scan_pack                                *)

\* one table row, read at Python position p
ScanRow(b, p) ==
    [id |-> UIntAt(b, p, 4), type |-> UIntAt(b, p + 4, 2),
     sub |-> UIntAt(b, p + 6, 2), flags |-> UIntAt(b, p + 8, 2),
     offset |-> UIntAt(b, p + 10, 4), length |-> UIntAt(b, p + 14, 4)]

\* status "none" is `return None`, "error" a struct.error from unpack_from
scan_pack(b) ==
    IF Slice(b, 0, 4) # MAGIC THEN [status |-> "none", entries |-> <<>>]
    ELSE IF Len(b) < HeaderSize THEN [status |-> "error", entries |-> <<>>]
    ELSE LET ver == UIntAt(b, 4, 2)
             count == UIntAt(b, 6, 2)
         IN  IF ver # 1 THEN [status |-> "none", entries |-> <<>>]
             ELSE IF HeaderSize + count * EntrySize > Len(b)
                 THEN [status |-> "error", entries |-> <<>>]
             ELSE [status |-> "ok",
                   entries |-> [k \in 1..count |->
                                   ScanRow(b, HeaderSize + (k - 1) * EntrySize)]]

----------------------------------------------------------------------------
(* Coefficient Synthesizer: sysex_pack.poles_to_biquad_coeffs              *)
(*                                                                         *)
(* Fixed point: r and cos(theta) are integers in units of 1/Scale, the     *)
(* coefficients integers in units of 1/Scale^2, so the products and the    *)
(* comparisons of the code are exact.                                      *)

Scale == 100 * 100

\* 1.999 and 0.999 (lines 212-213) in units of 1/Scale^2
A1Clamp == 199900000
A2Clamp == 99900000

Clamp(lo, hi, x) == Max(lo, Min(hi, x))

\* (b0, b1, b2, a1, a2) for r = rr / Scale and cos(theta) = cc / Scale
poles_to_biquad_coeffs(rr, cc) ==
    LET a1 == -2 * rr * cc
        a2 == rr * rr
        b0 == (Scale - rr) * (Scale \div 2)
    IN  [b0 |-> b0, b1 |-> 0, b2 |-> -b0,
         a1 |-> Clamp(-A1Clamp, A1Clamp, a1),
         a2 |-> Clamp(-A2Clamp, A2Clamp, a2)]

----------------------------------------------------------------------------
(* Sidecar: sysex_pack.write_sidecar_json                                  *)

\* a `rec` whose 'bytes' key does not depend on the length
SidecarRecAnyLength(e) ==
    LET sub == IF e.sub < 0 THEN 0 ELSE e.sub
        interesting == e.type = 16 /\ sub = 34
    IN  [id |-> e.id, type |-> e.type, sub |-> sub, flags |-> e.flags,
         length |-> Len(e.data), hasBytes |-> interesting,
         bytes |-> IF interesting THEN e.data ELSE <<>>]

\* one `rec` of the sidecar (lines 354-362); hasBytes is the 'bytes' key
SidecarRec(e) ==
    LET sub == IF e.sub < 0 THEN 0 ELSE e.sub
        interesting == e.type = 16 /\ sub = 34 /\ Len(e.data) = 14
    IN  [id |-> e.id, type |-> e.type, sub |-> sub, flags |-> e.flags,
         length |-> Len(e.data), hasBytes |-> interesting,
         bytes |-> IF interesting THEN e.data ELSE <<>>]

\* the JSON document `{'count': len(out), 'entries': out}`
write_sidecar_json(es) ==
    [written |-> TRUE, count |-> Len(es),
     entries |-> [k \in 1..Len(es) |-> SidecarRec(es[k])]]

----------------------------------------------------------------------------
(* Layer-filter reader: dump_layer_filters.scan_pack                        *)

\* line 16: the row is a layer-filter entry
IsLayerFilterRow(r) == r.type = 16 /\ r.sub = 34 /\ r.length = 14

\* `data = b[offd:offd+ln]`
RowData(b, r) == Slice(b, r.offset, r.offset + r.length)

\* an item whose tilt is the byte as it stands
LayerFilterItemUnsignedTilt(b, path, r) ==
    LET data == RowData(b, r)
    IN  [pack |-> path, id |-> r.id, type |-> r.type, sub |-> r.sub,
         bytes |-> data,
         decode |-> [filterType |-> data[1], cutoff |-> data[2], q |-> data[3],
                     morphIndex |-> data[4], morphDepth |-> data[5],
                     tilt |-> data[6],
                     reserved |-> Slice(data, 6, 14)]]

\* the dict appended for row r of the container b read from `path`
LayerFilterItem(b, path, r) ==
    LET data == RowData(b, r)
    IN  [pack |-> path, id |-> r.id, type |-> r.type, sub |-> r.sub,
         bytes |-> data,
         decode |-> [filterType |-> data[1], cutoff |-> data[2], q |-> data[3],
                     morphIndex |-> data[4], morphDepth |-> data[5],
                     tilt |-> IF data[6] < 128 THEN data[6] ELSE data[6] - 256,
                     reserved |-> Slice(data, 6, 14)]]

\* status "error" is an exception leaving the function: struct.error from
\* unpack_from on a short buffer, IndexError from data[0..5] on a short slice
dump_layer_filters_scan_pack(b, path) ==
    IF Slice(b, 0, 4) # MAGIC THEN [status |-> "ok", items |-> <<>>]
    ELSE IF Len(b) < HeaderSize THEN [status |-> "error", items |-> <<>>]
    ELSE LET ver == UIntAt(b, 4, 2)
             count == UIntAt(b, 6, 2)
         IN  IF ver # 1 THEN [status |-> "ok", items |-> <<>>]
             ELSE IF HeaderSize + count * EntrySize > Len(b)
                 THEN [status |-> "error", items |-> <<>>]
             ELSE LET rows == [k \in 1..count |->
                                  ScanRow(b, HeaderSize + (k - 1) * EntrySize)]
                      hits == SelectSeq(rows, IsLayerFilterRow)
                  IN  IF \E k \in 1..Len(hits) : Len(RowData(b, hits[k])) < 6
                      THEN [status |-> "error", items |-> <<>>]
                      ELSE [status |-> "ok",
                            items |-> [k \in 1..Len(hits) |->
                                          LayerFilterItem(b, path, hits[k])]]

----------------------------------------------------------------------------
(* Preset decoder: proteus_preset_decode.read_pack, parse_header, main      *)

\* status "exit" is `raise SystemExit('Not a ZPK1 pack')`, "error" a
\* struct.error; the version field is read and not looked at
read_pack(b) ==
    IF Slice(b, 0, 4) # MAGIC THEN [status |-> "exit", entries |-> <<>>]
    ELSE IF Len(b) < HeaderSize THEN [status |-> "error", entries |-> <<>>]
    ELSE LET count == UIntAt(b, 6, 2)
         IN  IF HeaderSize + count * EntrySize > Len(b)
             THEN [status |-> "error", entries |-> <<>>]
             ELSE [status |-> "ok",
                   entries |-> [k \in 1..count |->
                                   ScanRow(b, HeaderSize + (k - 1) * EntrySize)]]

\* `len(data) < p+2+4+10` with p = 1
DecodeHeaderMinLen == 17

\* info without a 'header' key, and parse_header's `return None`
NoHeader == [status |-> "none", sub |-> 0, preset |-> 0, counts |-> <<>>]

\* parse_header: status "error" is the IndexError of data[0] on empty data
parse_header(data) ==
    IF data = <<>> THEN [NoHeader EXCEPT !.status = "error"]
    ELSE IF Len(data) < DecodeHeaderMinLen THEN NoHeader
    ELSE [status |-> "ok", sub |-> data[1],
          preset |-> BitOr(data[2], Shl(data[3], 8)),
          counts |-> Slice(data, 7, 17)]

\* rows of the table with type 0x10 and the given subtype (lines 42-43)
RowsTyped(rows, s) == SelectSeq(rows, LAMBDA r : r.type = 16 /\ r.sub = s)

\* main after read_pack returned: the info dict it prints, or the exception
DecodeInfo(b, rows) ==
    LET hdr == RowsTyped(rows, 1)
        asm == RowsTyped(rows, 254)
        header == IF hdr = <<>> THEN NoHeader
                  ELSE parse_header(RowData(b, hdr[1]))
    IN  [status |-> IF hdr # <<>> /\ header.status = "error" THEN "error" ELSE "ok",
         hasHeader |-> hdr # <<>>, header |-> header,
         hasAssembled |-> asm # <<>>,
         assembled_len |-> IF asm = <<>> THEN 0 ELSE asm[1].length]

----------------------------------------------------------------------------
(* CSV parser: parse_emu_sysex.parse_sysex_file, merge_names_with_headers   *)

\* `lsb + (msb << 7)`
U14(lsb, msb) == lsb + Shl(msb, 7)

\* `.rstrip("\x00 ")` on the decoded name
RECURSIVE RStrip(_)
RStrip(name) ==
    IF name # <<>> /\ name[Len(name)] \in {0, 32}
    THEN RStrip(SubSeq(name, 1, Len(name) - 1))
    ELSE name

\* `bytes(name_bytes).decode("ascii")`, "" on UnicodeDecodeError
DecodeName(name_bytes) ==
    IF \E n \in 1..Len(name_bytes) : name_bytes[n] >= 128 THEN <<>>
    ELSE RStrip(name_bytes)

\* a row of the CSV; preset_name is kept as its ASCII codes
Row(filename, preset_num, rom_id, preset_name, filter_type_id, message_type) ==
    [filename |-> filename, preset_num |-> preset_num, rom_id |-> rom_id,
     preset_name |-> preset_name, layer_index |-> -1,
     filter_type_id |-> filter_type_id, message_type |-> message_type]

\* err = "IndexError" is data[0] on an empty file
parse_sysex_file(data, filename) ==
    IF data = <<>> THEN [err |-> "IndexError", rows |-> <<>>]
    ELSE IF ~(data[1] = F0 /\ data[Len(data)] = F7) THEN [err |-> "", rows |-> <<>>]
    ELSE IF Len(data) < 7 THEN [err |-> "", rows |-> <<>>]
    ELSE LET cmd == data[6]
             subcmd == data[7]
             payload == SubSeq(data, 8, Len(data) - 1)
             isHeader == cmd = 16 /\ subcmd \in {1, 3}
         IN  IF isHeader /\ Len(payload) < 30 THEN [err |-> "", rows |-> <<>>]
             ELSE [err |-> "",
                   rows |->
                     (IF isHeader
                      THEN <<Row(filename, U14(payload[1], payload[2]),
                                 U14(payload[Len(payload) - 1], payload[Len(payload)]),
                                 <<>>, -1, "header")>>
                      ELSE <<>>)
                     \o (IF cmd = 11 /\ Len(payload) >= 20 /\ payload[1] = 1
                         THEN <<Row(filename, U14(payload[2], payload[3]),
                                    U14(payload[4], payload[5]),
                                    DecodeName(Slice(payload, 5, 21)), -1, "name")>>
                         ELSE <<>>)
                     \o (IF cmd = 16 /\ subcmd = 34 /\ Len(payload) = 14
                         THEN <<Row(filename, -1, -1, <<>>,
                                    U14(payload[1], payload[2]), "filter_params")>>
                         ELSE <<>>)]

\* the key of merge_names_with_headers' dictionary
RowKey(r) == <<r.preset_num, r.rom_id>>

\* preset_dict[key] after the loop: the fields of the last row with the key,
\* and the last non-empty name among the rows with the key
MergedRow(rows, key) ==
    LET at == {k \in 1..Len(rows) : RowKey(rows[k]) = key}
        named == {k \in at : rows[k].preset_name # <<>>}
        last(S) == CHOOSE k \in S : \A m \in S : m <= k
    IN  [rows[last(at)] EXCEPT
            !.preset_name = IF named = {} THEN <<>> ELSE rows[last(named)].preset_name]

\* the sort key (rom_id, preset_num, layer_index); layer_index is always -1
KeyBefore(a, b) == a[2] < b[2] \/ (a[2] = b[2] /\ a[1] < b[1])

RECURSIVE SortedKeys(_)
SortedKeys(K) ==
    IF K = {} THEN <<>>
    ELSE LET first == CHOOSE x \in K : \A y \in K \ {x} : KeyBefore(x, y)
         IN  <<first>> \o SortedKeys(K \ {first})

\* merge_names_with_headers(all_rows), sorted as batch_parse_sysex sorts it
MergedSorted(rows) ==
    LET keys == SortedKeys({RowKey(rows[k]) : k \in 1..Len(rows)})
    IN  [n \in 1..Len(keys) |-> MergedRow(rows, keys[n])]

----------------------------------------------------------------------------
(* States before a component has run                                       *)

NoModels == [loaded |-> FALSE, names |-> {}]
NotPacked == [err |-> "", bytes |-> <<>>]
NotScanned == [status |-> "not run", entries |-> <<>>]
NoCoeffs == [b0 |-> 0, b1 |-> 0, b2 |-> 0, a1 |-> 0, a2 |-> 0]
NoSidecar == [written |-> FALSE, count |-> 0, entries |-> <<>>]

ExtractIdle == raw = <<>> /\ i = 0 /\ frames = <<>> /\ spans = <<>> /\ msgs = <<>>
RecordIdle ==
    /\ devspec = NoSpec /\ models = NoModels /\ given = <<>> /\ entries = <<>>
    /\ packed = NotPacked /\ scanned = NotScanned /\ sidecar = NoSidecar
UnpackIdle ==
    core = <<>> /\ unpacked = <<>> /\ reunpacked = <<>> /\ unpacked7 = <<>>
CoefIdle == radius = 1 /\ cosTheta = 0 /\ coeffs = NoCoeffs

\* the arguments of a run that has none
NoArgs == [in_dir |-> FALSE, input |-> FALSE, out |-> FALSE, limit |-> 0]
\* the exit status of a process that is still running
Running == -1

BatchIdle ==
    /\ tool = "" /\ args = NoArgs /\ files = <<>> /\ fileIdx = 0
    /\ outputs = <<>> /\ tally = 0 /\ errors = 0 /\ ret = "" /\ status = Running

----------------------------------------------------------------------------
(* Frame Extractor, one loop iteration per step                            *)

\* longest input buffer of the extractor runs
MaxRaw == 6

ExtractBytes == {F0, F7, 24}

InitExtract ==
    /\ pc = "extract"
    /\ raw \in SeqsUpTo(ExtractBytes, MaxRaw)
    /\ i = 0 /\ frames = <<>> /\ spans = <<>> /\ msgs = <<>>
    /\ RecordIdle /\ UnpackIdle /\ CoefIdle /\ BatchIdle

\* one iteration of `while i < len(raw)` (lines 33-42)
ExtractStep ==
    /\ pc = "extract"
    /\ i < Len(raw)
    /\ LET it == ExtractIter(raw, i)
       IN  /\ i' = it.next
           /\ spans' = spans \o it.span
           /\ frames' = frames \o [n \in 1..Len(it.span) |-> SpanBytes(raw, it.span[n])]
    /\ UNCHANGED <<pc, raw, msgs, recordVars, unpackVars, coefVars, batchVars>>

\* the loop's exit and `return frames`
ExtractReturn ==
    /\ pc = "extract"
    /\ ~(i < Len(raw))
    /\ pc' = "extracted"
    /\ UNCHANGED <<extractVars, recordVars, unpackVars, coefVars, batchVars>>

\* list(iter_sysex_messages(raw)) on the same buffer
IterSysexMessages ==
    /\ pc = "extracted"
    /\ msgs' = iter_sysex_messages(raw)
    /\ pc' = "done"
    /\ UNCHANGED <<raw, i, frames, spans, recordVars, unpackVars, coefVars, batchVars>>

NextExtract == ExtractStep \/ ExtractReturn \/ IterSysexMessages

\* a loop that can take a step takes it: the run is sequential code
SpecExtract == InitExtract /\ [][NextExtract]_vars /\ WF_vars(NextExtract)

\* every emitted frame is raw[s..e] with 0xF0 at s and the first 0xF7 after s at e
FramesAreSpans ==
    /\ Len(frames) = Len(spans)
    /\ \A n \in 1..Len(spans) :
          LET s == spans[n][1]
              e == spans[n][2]
          IN  /\ 0 <= s /\ s < e /\ e < Len(raw)
              /\ raw[s + 1] = F0 /\ raw[e + 1] = F7
              /\ \A q \in (s + 1)..(e - 1) : raw[q + 1] # F7
              /\ frames[n] = SubSeq(raw, s + 1, e + 1)

\* frames appear in ascending buffer order with disjoint byte ranges
SpansAscend == \A n \in 1..(Len(spans) - 1) : spans[n][2] < spans[n + 1][1]

Covered(p) == \E n \in 1..Len(spans) : spans[n][1] <= p /\ p <= spans[n][2]

\* a 0xF0 outside every frame has no 0xF7 after it: nothing greedy is missed
NoFrameMissed ==
    \A p \in 0..(Len(raw) - 1) :
        (raw[p + 1] = F0 /\ ~Covered(p)) =>
            \A q \in (p + 1)..(Len(raw) - 1) : raw[q + 1] # F7

GreedyFrames == FramesAreSpans /\ SpansAscend /\ NoFrameMissed /\ msgs = frames

\* C9: for any byte buffer the extractor terminates, and what it has emitted
\* when it returns are exactly the greedy left-to-right frames: each starts at
\* a 0xF0 and ends at the first 0xF7 after it, they are in ascending order and
\* disjoint, and a 0xF0 with no later 0xF7 yields no frame; both extractors
\* (extract_frames, iter_sysex_messages) emit the same list.
C9_FrameExtraction == <>(pc = "done") /\ [](pc = "done" => GreedyFrames)

\* two frames emitted, and an unterminated 0xF0 after them dropped
C9_Witness ==
    /\ pc = "done"
    /\ Len(frames) = 2
    /\ \E p \in 0..(Len(raw) - 1) : raw[p + 1] = F0 /\ ~Covered(p)

----------------------------------------------------------------------------
(* Payload Unpacker on one message, then on its own output                 *)

\* longest core of the unpacker runs
MaxCore == 9

CoreBytes == {0, 1, 128}

InitUnpack ==
    /\ pc = "core"
    /\ core \in SeqsUpTo(CoreBytes, MaxCore)
    /\ raw = <<F0>> \o core \o <<F7>>
    /\ unpacked = <<>> /\ reunpacked = <<>> /\ unpacked7 = <<>>
    /\ i = 0 /\ frames = <<>> /\ spans = <<>> /\ msgs = <<>>
    /\ RecordIdle /\ CoefIdle /\ BatchIdle

\* split_and_unpack on the file: one output per message
SplitAndUnpack ==
    /\ pc = "core"
    /\ unpacked' = split_and_unpack(raw)
    /\ pc' = "unpacked"
    /\ UNCHANGED <<core, reunpacked, unpacked7, extractVars, recordVars, coefVars, batchVars>>

\* the unpacker applied to each of its outputs
UnpackAgain ==
    /\ pc = "unpacked"
    /\ reunpacked' = [n \in 1..Len(unpacked) |-> UnpackCore(unpacked[n])]
    /\ pc' = "reunpacked"
    /\ UNCHANGED <<core, unpacked, unpacked7, extractVars, recordVars, coefVars, batchVars>>

NextUnpack == SplitAndUnpack \/ UnpackAgain

SpecUnpack == InitUnpack /\ [][NextUnpack]_vars

\* C10: the Payload Unpacker is idempotent: applied to its own output it
\* returns that output unchanged.
C10_UnpackerIdempotent == pc = "reunpacked" => reunpacked = unpacked

----------------------------------------------------------------------------
(* The two group decoders, unpack_7bit and unpack7, on the same bytes       *)

\* longest block given to the decoders
MaxBlock == 10

\* lead bytes 0000001, 1010101 and 10000010; the last has its high bit set
GroupBytes == {1, 85, 130}

InitGroups ==
    /\ pc = "block"
    /\ core \in SeqsUpTo(GroupBytes, MaxBlock)
    /\ unpacked = <<>> /\ reunpacked = <<>> /\ unpacked7 = <<>>
    /\ ExtractIdle /\ RecordIdle /\ CoefIdle /\ BatchIdle

\* syx_tools.unpack_7bit(core)
Unpack7Bit ==
    /\ pc = "block"
    /\ unpacked' = unpack_7bit(core)
    /\ pc' = "unpack_7bit"
    /\ UNCHANGED <<core, reunpacked, unpacked7, extractVars, recordVars,
                   coefVars, batchVars>>

\* sysex_pack.unpack7(core)
Unpack7 ==
    /\ pc = "unpack_7bit"
    /\ unpacked7' = unpack7(core)
    /\ pc' = "groups"
    /\ UNCHANGED <<core, unpacked, reunpacked, extractVars, recordVars,
                   coefVars, batchVars>>

NextGroups == Unpack7Bit \/ Unpack7

SpecGroups == InitGroups /\ [][NextGroups]_vars

\* data byte d with the high bit taken from bit k of the lead byte
GroupByte(lead, k, d) ==
    IF d >= 128 THEN d ELSE d + 128 * ((lead \div Pow2(k)) % 2)

\* C11: for every input of n bytes unpack7 and unpack_7bit return the same
\* output; its length is n - ceil(n/8) <= n, a trailing lone lead byte giving
\* nothing; and data byte k (0-based) of group g, which has the group's first
\* byte as lead, comes out as data | (((lead >> k) & 1) << 7).
C11_GroupDecoding ==
    pc = "groups" =>
        LET n == Len(core)
            groups == (n + 7) \div 8
        IN  /\ unpacked7 = unpacked
            /\ Len(unpacked) = n - groups
            /\ Len(unpacked) <= n
            /\ \A g \in 0..(groups - 1), k \in 0..6 :
                  8 * g + k + 2 <= n =>
                      unpacked[7 * g + k + 1]
                          = GroupByte(core[8 * g + 1], k, core[8 * g + k + 2])

\* nine bytes: one full group, whose first data byte gets its high bit from
\* the lead byte, and a lone lead byte that is dropped
C11_Witness ==
    /\ pc = "groups"
    /\ Len(core) = 9
    /\ Len(unpacked7) = 7
    /\ core[2] < 128 /\ unpacked7[1] = core[2] + 128

\* ten bytes: the second group has a lead byte and one data byte
C11_WitnessTwoGroups ==
    /\ pc = "groups"
    /\ Len(core) = 10
    /\ Len(unpacked7) = 8
    /\ core[9] = 85 /\ core[10] = 1 /\ unpacked7[8] = 129

----------------------------------------------------------------------------
(* poles_to_biquad_coeffs on one pole                                      *)

\* pole radii r in (0, 1) and values of cos(theta) in [-1, 1], times Scale
RadiusGrid == {1, 2500, 5000, 7071, 9000, 9900, 9990, 9994, 9995, 9996, 9999}
CosGrid == {-Scale, -9999, -9997, -7071, -5000, 0, 5000, 7071, 9997, 9999, Scale}

InitCoef ==
    /\ pc = "pole"
    /\ radius \in RadiusGrid
    /\ cosTheta \in CosGrid
    /\ coeffs = NoCoeffs
    /\ ExtractIdle /\ RecordIdle /\ UnpackIdle /\ BatchIdle

PolesToBiquadCoeffs ==
    /\ pc = "pole"
    /\ coeffs' = poles_to_biquad_coeffs(radius, cosTheta)
    /\ pc' = "coeffs"
    /\ UNCHANGED <<radius, cosTheta, extractVars, recordVars, unpackVars, batchVars>>

NextCoef == PolesToBiquadCoeffs

SpecCoef == InitCoef /\ [][NextCoef]_vars

\* C8: for every pole radius r in (0, 1) and every angle theta the returned,
\* clamped (a1, a2) satisfy |a2| < 1 and |a1| < 1 + a2.
C8_StabilityTriangle ==
    pc = "coeffs" =>
        /\ Abs(coeffs.a2) < Scale * Scale
        /\ Abs(coeffs.a1) < Scale * Scale + coeffs.a2

----------------------------------------------------------------------------
(* The packer's run on one file: main, single-file mode (lines 437-445),   *)
(* and the reader on the container it wrote                                *)

\* `frames = extract_frames(raw)`
ExtractFrames ==
    /\ pc = "read"
    /\ frames' = extract_frames(raw)
    /\ pc' = "extracted"
    /\ UNCHANGED <<raw, i, spans, msgs, recordVars, unpackVars, coefVars, batchVars>>

\* `entries = canonize(frames, spec)`
Canonize ==
    /\ pc = "extracted"
    /\ entries' = canonize(frames, devspec)
    /\ pc' = "canonized"
    /\ UNCHANGED <<devspec, models, given, packed, scanned, sidecar,
                   extractVars, unpackVars, coefVars, batchVars>>

\* `entries = assemble_preset(entries)`
AssemblePreset ==
    /\ pc = "canonized"
    /\ given' = entries
    /\ entries' = assemble_preset(entries)
    /\ pc' = "assembled"
    /\ UNCHANGED <<devspec, models, packed, scanned, sidecar,
                   extractVars, unpackVars, coefVars, batchVars>>

\* `entries = segment_assembled(entries)`
SegmentAssembled ==
    /\ pc = "assembled"
    /\ given' = entries
    /\ entries' = segment_assembled(entries)
    /\ pc' = "segmented"
    /\ UNCHANGED <<devspec, models, packed, scanned, sidecar,
                   extractVars, unpackVars, coefVars, batchVars>>

\* `entries = augment_with_zmf1(entries)`
AugmentWithZmf1 ==
    /\ pc = "segmented"
    /\ given' = entries
    /\ entries' = augment_with_zmf1(entries, models)
    /\ pc' = "augmented"
    /\ UNCHANGED <<devspec, models, packed, scanned, sidecar,
                   extractVars, unpackVars, coefVars, batchVars>>

\* `out = pack(entries)`, the container written and then the sidecar
\* (lines 443-449); an exception of pack ends the run before either
Pack ==
    /\ pc = "augmented"
    /\ packed' = pack(entries)
    /\ sidecar' = IF packed'.err = "" THEN write_sidecar_json(entries) ELSE sidecar
    /\ pc' = IF packed'.err = "" THEN "packed" ELSE "raised"
    /\ UNCHANGED <<devspec, models, given, entries, scanned,
                   extractVars, unpackVars, coefVars, batchVars>>

\* pack_index.scan_pack on the written container
ScanPack ==
    /\ pc = "packed"
    /\ scanned' = scan_pack(packed.bytes)
    /\ pc' = "scanned"
    /\ UNCHANGED <<devspec, models, given, entries, packed, sidecar,
                   extractVars, unpackVars, coefVars, batchVars>>

\* most frames in an input file of the pipeline runs
MaxFrames == 2

Proteus == [given |-> TRUE, manufacturerId |-> <<24>>, familyId |-> 15,
            editor |-> 85, checksum |-> OnesComplement7]
ProteusNoChecksum == [Proteus EXCEPT !.checksum = ""]
DeviceSpecs == {Proteus, ProteusNoChecksum, NoSpec}

AllModels == [loaded |-> TRUE, names |-> {"vowel_pair", "bell_pair", "low_pair"}]
BellOnly == [loaded |-> TRUE, names |-> {"bell_pair"}]
ModelChoices == {NoModels, AllModels, BellOnly}

\* manufacturer, family, device id, editor, command of a matching message
ProteusPrefix(cmd) == <<24, 15, 0, 85, cmd>>

\* a preset header's data: subtype, preset, byte count, ten counts, padding
HeaderData(sub, len, layFilt, layEnv) ==
    [k \in 1..len |-> CASE k = 1 -> sub [] k = 14 -> layFilt [] k = 16 -> layEnv
                       [] OTHER -> 0]

Filler(len, salt) == [k \in 1..len |-> (3 * k + salt) % 128]

\* the message cores the input files are made of
PipelineCores == <<
    ProteusPrefix(16) \o HeaderData(1, 17, 1, 0),
    ProteusPrefix(16) \o <<2, 0>> \o Filler(14, 0) \o <<0>>,
    ProteusPrefix(16) \o <<4, 0, 65, 66, 0>>,
    ProteusPrefix(18),
    ProteusPrefix(18) \o <<5, 122>>,
    ProteusPrefix(18) \o <<5, 0>>,
    ProteusPrefix(16),
    ProteusPrefix(16) \o <<2, 0>>,
    <<25, 15, 0, 85, 16, 1>>,
    <<24, 14, 0, 85, 16, 1>>,
    <<24, 15, 0, 84, 16, 1>>,
    <<24, 15, 0, 85>>,
    <<>> >>

Framed(c) == <<F0>> \o c \o <<F7>>

Init ==
    /\ pc = "read"
    /\ \E pick \in SeqsUpTo(1..Len(PipelineCores), MaxFrames) :
           raw = Concat([n \in 1..Len(pick) |-> Framed(PipelineCores[pick[n]])])
    /\ i = 0 /\ frames = <<>> /\ spans = <<>> /\ msgs = <<>>
    /\ devspec \in DeviceSpecs
    /\ models \in ModelChoices
    /\ given = <<>> /\ entries = <<>>
    /\ packed = NotPacked /\ scanned = NotScanned /\ sidecar = NoSidecar
    /\ UnpackIdle /\ CoefIdle /\ BatchIdle

Next ==
    \/ ExtractFrames
    \/ Canonize
    \/ AssemblePreset
    \/ SegmentAssembled
    \/ AugmentWithZmf1
    \/ Pack
    \/ ScanPack

Spec == Init /\ [][Next]_vars

\* C3 (as claimed): a record list canonize produced with a device
\* specification, records without a subtype byte included, is accepted by the
\* packer: pack returns a container whose count field is the number of records.
C3_PackAcceptsCanonized ==
    (devspec.given /\ pc \in {"packed", "raised", "scanned"}) =>
        /\ packed.err = ""
        /\ Len(packed.bytes) >= HeaderSize
        /\ UIntAt(packed.bytes, 6, 2) = Len(entries)

\* C12 (as claimed): every frame's core passes through the Payload Unpacker
\* before the Canonicalizer sees it, so the data of a record made from a frame
\* whose core has no high bit set is derived from the unpacked core: it is
\* the unpacked core itself without a device specification, and the unpacked
\* core after the manufacturer prefix and the four bytes that follow it with
\* one.
C12_CanonizerSeesUnpacked ==
    pc = "canonized" =>
        \A n \in 1..Len(entries) :
            LET c == StripDelims(frames[entries[n].id + 1])
                off == Len(devspec.manufacturerId)
            IN  ~AnyHighBit(c) =>
                    entries[n].data = IF devspec.given
                                      THEN SliceFrom(unpack7(c), off + 4)
                                      ELSE unpack7(c)

\* the frame's core passes every test of the Canonicalizer's match
Matching(f, spec) ==
    LET c == StripDelims(f)
        off == Len(spec.manufacturerId)
    IN  /\ Len(c) >= off + 4
        /\ SubSeq(c, 1, off) = spec.manufacturerId
        /\ c[off + 1] = spec.familyId
        /\ c[off + 3] = spec.editor

MatchingFrames == {k \in 0..(Len(frames) - 1) : Matching(frames[k + 1], devspec)}

\* C7: with a device specification canonize emits exactly one record for
\* every matching frame and none for any other; a record's id is its frame's
\* ordinal index among all extracted frames, its type the command byte and its
\* data the bytes after it; a checksum mismatch only sets the validity flag.
C7_OneRecordPerMatchingFrame ==
    (pc = "canonized" /\ devspec.given) =>
        /\ Len(entries) = Cardinality(MatchingFrames)
        /\ \A n \in 1..Len(entries) :
              LET c == StripDelims(frames[entries[n].id + 1])
                  off == Len(devspec.manufacturerId)
              IN  /\ entries[n].id \in MatchingFrames
                  /\ n < Len(entries) => entries[n].id < entries[n + 1].id
                  /\ entries[n].type = c[off + 4]
                  /\ entries[n].data = SubSeq(c, off + 5, Len(c))

\* a non-matching frame skipped, and the matching frame after it kept with
\* its checksum flagged invalid
C7_Witness ==
    /\ pc = "canonized" /\ devspec.given
    /\ Len(frames) = 2 /\ Len(entries) = 1
    /\ entries[1].id = 1 /\ entries[1].valid = "invalid"

----------------------------------------------------------------------------
(* The Canonicalizer on a message with a correct checksum byte and on the  *)
(* same message with one bit of that byte flipped                          *)

\* longest data before the checksum byte
MaxPrefix == 3

ChecksumBytes == {1, 16, 32, 48, 129}

\* `(~sum(b & 0x7F for b in data[:-1])) & 0x7F` for data[:-1] = prefix
GoodChecksum(prefix) == Not7(Sum7(prefix))

InitChecksum ==
    /\ pc = "extracted"
    /\ \E prefix \in SeqsUpTo(ChecksumBytes, MaxPrefix), bit \in 0..7, cmd \in {16, 18} :
          LET chk == GoodChecksum(prefix)
          IN  frames = <<Framed(ProteusPrefix(cmd) \o prefix \o <<chk>>),
                         Framed(ProteusPrefix(cmd) \o prefix
                                    \o <<BitXor(chk, Pow2(bit))>>)>>
    /\ raw = Concat(frames)
    /\ extract_frames(raw) = frames
    /\ i = 0 /\ spans = <<>> /\ msgs = <<>>
    /\ devspec = Proteus
    /\ models = NoModels /\ given = <<>> /\ entries = <<>>
    /\ packed = NotPacked /\ scanned = NotScanned /\ sidecar = NoSidecar
    /\ UnpackIdle /\ CoefIdle /\ BatchIdle

NextChecksum == Canonize

SpecChecksum == InitChecksum /\ [][NextChecksum]_vars

LastByte(d) == d[Len(d)]

\* C6 (as claimed): the message whose final byte is the computed checksum is
\* reported valid, and with any one bit of that byte flipped it is reported
\* invalid, the record being emitted all the same.
C6_AnyBitFlipInvalid ==
    pc = "canonized" =>
        /\ Len(entries) = 2
        /\ entries[1].valid = "valid"
        /\ entries[2].valid = "invalid"

\* C6 (amended): the message whose final byte is the computed checksum is
\* reported valid; with one bit of that byte flipped the record is still
\* emitted, and it is reported invalid exactly when the flip changed the low
\* seven bits and did not turn them into 0x7F, the value that means "ignore".
C6_LowBitFlipInvalid ==
    pc = "canonized" =>
        /\ Len(entries) = 2
        /\ entries[1].valid = "valid"
        /\ LET good == BitAnd(LastByte(entries[1].data), 127)
               flipped == BitAnd(LastByte(entries[2].data), 127)
           IN  entries[2].valid = "invalid" <=> (flipped # good /\ flipped # 127)

\* the spec's example shape: three data bytes and a checksum, one low bit of
\* which was flipped, reported invalid and kept
C6_Witness ==
    /\ pc = "canonized"
    /\ Len(entries) = 2
    /\ Len(entries[2].data) = 4
    /\ entries[1].valid = "valid"
    /\ entries[2].valid = "invalid"
    /\ LastByte(entries[2].data) < 128

----------------------------------------------------------------------------
(* assemble_preset on a list of continuation packets in any order          *)

\* most records in a list given to the assembler
MaxPackets == 3

\* first two data bytes of a packet: sequence numbers 2, 4, 130, 0 and 1.
\* Records canonize made carry their subtype (2 or 4) in the first byte.
SeqBytes == {<<2, 0>>, <<4, 0>>, <<2, 1>>, <<0, 0>>, <<1, 0>>}

\* the record at list position k (id k - 1, as canonize numbers them) for
\* choice c: a continuation packet, a packet too short to merge, or a header
AsmRecord(k, c) ==
    CASE c.kind = "packet" ->
            Rec(k - 1, 16, 0, IF c.seq[1] = 4 THEN 4 ELSE 2,
                c.seq \o [n \in 1..c.len |-> 160 + 16 * n + k] \o <<0>>,
                "canonical", "invalid", 0, -1, "")
      [] c.kind = "short" ->
            Rec(k - 1, 16, 0, 2, <<2, 0>>, "canonical", "invalid", 0, -1, "")
      [] OTHER ->
            Rec(k - 1, 16, 0, 1, HeaderData(1, 17, 1, 0), "canonical", "invalid",
                0, -1, "")

AsmChoices ==
    [kind : {"packet"}, seq : SeqBytes, len : 0..2]
        \cup {[kind |-> "short", seq |-> <<2, 0>>, len |-> 0],
              [kind |-> "header", seq |-> <<1, 0>>, len |-> 0]}

InitAsm ==
    /\ pc = "canonized"
    /\ \E pick \in SeqsUpTo(AsmChoices, MaxPackets) :
           entries = [k \in 1..Len(pick) |-> AsmRecord(k, pick[k])]
    /\ given = <<>>
    /\ devspec = Proteus /\ models = NoModels
    /\ packed = NotPacked /\ scanned = NotScanned /\ sidecar = NoSidecar
    /\ ExtractIdle /\ UnpackIdle /\ CoefIdle /\ BatchIdle

NextAsm == AssemblePreset

SpecAsm == InitAsm /\ [][NextAsm]_vars

\* positions in the list es of the continuation packets
Packets(es) == {k \in 1..Len(es) : IsContinuation(es[k])}

DistinctSeqs(es) ==
    \A k, m \in Packets(es) :
        k # m => PacketSeq(es[k].data) # PacketSeq(es[m].data)

\* payloads of the packets of es with sequence numbers lo and above, in
\* ascending sequence-number order
RECURSIVE PayloadsFrom(_, _)
PayloadsFrom(es, lo) ==
    LET rest == {k \in Packets(es) : PacketSeq(es[k].data) >= lo}
    IN  IF rest = {} THEN <<>>
        ELSE LET k == CHOOSE x \in rest :
                          \A y \in rest : PacketSeq(es[x].data) <= PacketSeq(es[y].data)
                 d == es[k].data
             IN  SubSeq(d, 3, Len(d) - 1) \o PayloadsFrom(es, PacketSeq(d) + 1)

\* the records of `entries` that assemble_preset appended
Appended == SubSeq(entries, Len(given) + 1, Len(entries))

\* C4: for continuation packets with pairwise distinct sequence numbers,
\* contiguous or not and in any list order, the assembled blob is the
\* concatenation of their payloads (data without the two sequence bytes and
\* the checksum byte) in ascending sequence-number order; an empty
\* concatenation yields no assembled record.
C4_AssemblerOrderIndependent ==
    (pc = "assembled" /\ DistinctSeqs(given)) =>
        LET want == PayloadsFrom(given, 0)
        IN  /\ SubSeq(entries, 1, Len(given)) = given
            /\ IF want = <<>> THEN Appended = <<>>
               ELSE /\ Len(Appended) = 1
                    /\ Appended[1].data = want
                    /\ Appended[1].sub = 254

\* three packets listed in descending sequence-number order, with a gap,
\* assembled in ascending order
C4_Witness ==
    /\ pc = "assembled"
    /\ Len(given) = 3
    /\ Packets(given) = {1, 2, 3}
    /\ PacketSeq(given[1].data) = 130
    /\ PacketSeq(given[2].data) = 4
    /\ PacketSeq(given[3].data) = 2
    /\ \A k \in 1..3 : Len(given[k].data) = 4
    /\ Len(Appended) = 1
    /\ Appended[1].data = <<given[3].data[3], given[2].data[3], given[1].data[3]>>

----------------------------------------------------------------------------
(* segment_assembled on a header record and an assembled blob              *)

\* largest layerFilterCount and layerEnvelopeCount of the header
MaxLayFilt == 3
MaxLayEnv == 1

BlobLens == {0, 13, 14, 42, 43, 92, 106, 134, 240}
HeaderLens == {16, 17, 19}
HeaderSubs == {1, 3}

\* The list the segmenter is given, as assemble_preset returns it: a header
\* record with the counts (or the record of another command in its place) and
\* a continuation packet, followed by the assembled record when the packet's
\* payload is not empty.
SegRecords(hsub, hlen, n, m, blen, salt) ==
    assemble_preset(
        <<Rec(0, IF hsub = 0 THEN 18 ELSE 16, 0, IF hsub = 0 THEN SubNone ELSE hsub,
              HeaderData(hsub, hlen, n, m), "canonical", "invalid", 0, -1, ""),
          Rec(1, 16, 0, 2, <<2, 0>> \o [k \in 1..blen |-> (7 * k + salt) % 128] \o <<0>>,
              "canonical", "invalid", 0, -1, "")>>)

InitSeg ==
    /\ pc = "assembled"
    /\ \E hsub \in HeaderSubs \cup {0}, hlen \in HeaderLens, n \in 0..MaxLayFilt,
          m \in 0..MaxLayEnv, blen \in BlobLens, salt \in {1, 2} :
           entries = SegRecords(hsub, hlen, n, m, blen, salt)
    /\ given = <<>>
    /\ devspec = Proteus /\ models = NoModels
    /\ packed = NotPacked /\ scanned = NotScanned /\ sidecar = NoSidecar
    /\ ExtractIdle /\ UnpackIdle /\ CoefIdle /\ BatchIdle

NextSeg == SegmentAssembled

SpecSeg == InitSeg /\ [][NextSeg]_vars

\* C5: when the header decodes with layerFilterCount = n and
\* layerEnvelopeCount = m and 0 < need = 14n + 92m <= len(blob), the segmenter
\* appends exactly n records of exactly 14 bytes each, record number k
\* (0-based) being blob[len - need + 14k : len - need + 14(k + 1)].
C5_SegmenterExact ==
    (/\ pc = "segmented"
     /\ FirstTyped(given, 1) # 0
     /\ FirstTyped(given, 254) # 0) =>
        LET hdr == given[FirstTyped(given, 1)].data
            blob == given[FirstTyped(given, 254)].data
            n == hdr[14]
            m == hdr[16]
            need == 14 * n + 92 * m
            start == Len(blob) - need
        IN  (Len(hdr) >= 17 /\ 0 < need /\ need <= Len(blob)) =>
                /\ Len(entries) = Len(given) + n
                /\ SubSeq(entries, 1, Len(given)) = given
                /\ \A k \in 0..(n - 1) :
                      LET rec == entries[Len(given) + 1 + k]
                      IN  /\ Len(rec.data) = 14
                          /\ rec.data = [x \in 1..14 |-> blob[start + 14 * k + x]]
                          /\ rec.type = 16 /\ rec.sub = 34

\* the spec's example: counts 3 and 0 and a blob of exactly 42 bytes give
\* three 14-byte records
C5_Witness ==
    /\ pc = "segmented"
    /\ Len(given) = 3
    /\ given[1].data[14] = 3 /\ given[1].data[16] = 0
    /\ Len(given[3].data) = 42
    /\ Len(entries) = 6
    /\ entries[6].data = SubSeq(given[3].data, 29, 42)

\* counts 1 and 1: the filter record is carved 106 bytes before the end
C5_WitnessEnvelope ==
    /\ pc = "segmented"
    /\ Len(given) = 3
    /\ given[1].data[14] = 1 /\ given[1].data[16] = 1
    /\ Len(given[3].data) = 134
    /\ Len(entries) = 4

----------------------------------------------------------------------------
(* pack on a record list, and scan_pack on the container                   *)

\* most records in a list given to the packer
MaxRecs == 3

\* one record of each kind the pipeline makes, with id n
PackRecord(kind, n) ==
    CASE kind = 1 -> Rec(n, 0, 0, SubAbsent, <<1, 2, 3>>, "raw", "n/a", -1, -1, "")
      [] kind = 2 -> Rec(n, 0, 0, SubAbsent, <<>>, "raw", "n/a", -1, -1, "")
      [] kind = 3 -> Rec(n, 18, 0, SubNone, <<5, 122>>, "canonical", "valid", 0, -1, "")
      [] kind = 4 -> Rec(n, 16, 0, 2, <<2, 0, 9, 0>>, "canonical", "invalid", 0, -1, "")
      [] kind = 5 -> Rec(n, 16, 0, 254, <<9>>, "assembled", "n/a", -1, -1, "")
      [] kind = 6 -> Rec(n, 16, 0, 34, Filler(14, 0), "heuristic", "n/a", -1, 0, "")
      [] kind = 7 -> Rec(n, 16, 0, 34, Filler(15, 0), "canonical", "valid", 0, -1, "")
      [] kind = 8 -> Rec(n, 18, 0, 34, Filler(14, 0), "canonical", "valid", 0, -1, "")
      [] OTHER -> Rec(n, 23117, 17969, SubAbsent, generate_zmf1_entry(0, NumFrames),
                      "zmf1", "n/a", -1, 0, "vowel_pair")

InitPack ==
    /\ pc = "augmented"
    /\ \E pick \in SeqsUpTo(1..9, MaxRecs) :
           entries = [k \in 1..Len(pick) |-> PackRecord(pick[k], 255 * (k - 1))]
    /\ given = <<>>
    /\ devspec = Proteus /\ models = NoModels
    /\ packed = NotPacked /\ scanned = NotScanned /\ sidecar = NoSidecar
    /\ ExtractIdle /\ UnpackIdle /\ CoefIdle /\ BatchIdle

NextPack == Pack \/ ScanPack

SpecPack == InitPack /\ [][NextPack]_vars

\* the entry table of the emitted buffer
Table ==
    [k \in 1..UIntAt(packed.bytes, 6, 2) |->
        ScanRow(packed.bytes, HeaderSize + (k - 1) * EntrySize)]

\* the entries' byte ranges follow each other from `first` to the buffer's end
TilesFrom(first) ==
    LET count == Len(entries)
    IN  /\ Len(Table) = count
        /\ Len(packed.bytes) >= first
        /\ count > 0 => Table[1].offset = first
        /\ \A k \in 1..(count - 1) :
              Table[k].offset + Table[k].length = Table[k + 1].offset
        /\ count > 0 =>
              Table[count].offset + Table[count].length = Len(packed.bytes)
        /\ count = 0 => Len(packed.bytes) = first

\* C1 (as claimed): in every buffer pack emits the first entry's offset is
\* 8 + 16*count, each entry's offset + length is the next entry's offset, and
\* the last entry's offset + length is the end of the buffer.
C1_PackerTiling16 ==
    pc \in {"packed", "scanned"} => TilesFrom(8 + 16 * Len(entries))

\* C1 (amended): in every buffer pack emits the first entry's offset is
\* 8 + 18*count (a table row is 18 bytes), each entry's offset + length is the
\* next entry's offset, and the last entry's offset + length is the end of the
\* buffer: the byte ranges tile the blob region without gap or overlap.
C1_PackerTiling ==
    pc \in {"packed", "scanned"} => TilesFrom(8 + 18 * Len(entries))

\* three entries packed, an empty one between two that are not
C1_Witness ==
    /\ pc = "packed"
    /\ Len(entries) = 3
    /\ entries[1].data # <<>> /\ entries[2].data = <<>> /\ entries[3].data # <<>>
    /\ Table[2].offset = Table[3].offset

\* the subtype field of a record: 0 when the record has none
SubField(e) == IF e.sub < 0 THEN 0 ELSE e.sub

\* C2: reading a buffer pack emitted with scan_pack yields an entry list of
\* the same length and order whose id, type, subtype, flags and length are
\* those of the input records, and the length bytes at offset are each
\* record's data.
C2_RoundTrip ==
    pc = "scanned" =>
        /\ scanned.status = "ok"
        /\ Len(scanned.entries) = Len(entries)
        /\ \A k \in 1..Len(entries) :
              LET row == scanned.entries[k]
                  e == entries[k]
              IN  /\ row.id = e.id
                  /\ row.type = e.type
                  /\ row.sub = SubField(e)
                  /\ row.flags = e.flags
                  /\ row.length = Len(e.data)
                  /\ row.offset + row.length <= Len(packed.bytes)
                  /\ SubSeq(packed.bytes, row.offset + 1, row.offset + row.length)
                         = e.data

\* a list with a coefficient record (flags set, no subtype), a layer-filter
\* record (subtype set) and a raw record read back
C2_Witness ==
    /\ pc = "scanned"
    /\ Len(entries) = 3
    /\ entries[1].type = 23117 /\ entries[2].sub = 34 /\ entries[3].sub = SubAbsent
    /\ scanned.entries[3].id = 510

----------------------------------------------------------------------------
(* The command-line tools on a set of files: sysex_pack.main (lines        *)
(* 392-453), pack_index.main, dump_layer_filters.main,                     *)
(* proteus_preset_decode.main and batch_parse_sysex                        *)

\* most files a run iterates over
MaxFiles == 3

Tools == {"sysex_pack", "pack_index", "dump_layer_filters",
          "proteus_preset_decode", "batch_parse_sysex"}

\* The paths a glob can match, as <<directory, stem>>, in sorted order:
\* directory 1 is a subdirectory of the input directory, 2 the input
\* directory itself; rglob descends into both.
PathOrder == <<<<1, 1>>, <<1, 2>>, <<2, 1>>, <<2, 2>>>>

\* What a matched path holds.  kind "unreadable" is a file whose read_bytes
\* raises OSError, "directory" a directory whose name matches the glob.
SyxContents ==
    {[kind |-> "file", data |-> Framed(ProteusPrefix(16) \o <<34>> \o Filler(14, 0))],
     [kind |-> "file", data |-> Framed(ProteusPrefix(18))],
     [kind |-> "file", data |-> <<>>],
     [kind |-> "unreadable", data |-> <<>>],
     [kind |-> "directory", data |-> <<>>]}

\* a container as pack writes it, with a header record, a layer-filter record
\* and an assembled record
GoodPack ==
    pack(<<Rec(0, 16, 0, 1, HeaderData(1, 17, 1, 0), "canonical", "valid", 0, -1, ""),
           Rec(1, 16, 0, 34, Filler(14, 0), "heuristic", "n/a", -1, 0, ""),
           Rec(2, 16, 0, 254, Filler(14, 0), "assembled", "n/a", -1, -1, "")>>).bytes

\* the same bytes under the magic 'ZPK2', and with the version field 2
BadMagic == <<90, 80, 75, 50>> \o SliceFrom(GoodPack, 4)
BadVersion == MAGIC \o LE(2, 2) \o SliceFrom(GoodPack, 6)

BinContents ==
    {[kind |-> "file", data |-> GoodPack],
     [kind |-> "file", data |-> BadMagic],
     [kind |-> "file", data |-> BadVersion],
     [kind |-> "file", data |-> MAGIC],
     [kind |-> "unreadable", data |-> <<>>]}

\* the elements of a set of numbers in ascending order: sorted(...)
RECURSIVE SortedSeq(_)
SortedSeq(S) ==
    IF S = {} THEN <<>>
    ELSE LET least == CHOOSE x \in S : \A y \in S : x <= y
         IN  <<least>> \o SortedSeq(S \ {least})

\* the sorted list of the paths numbered S, path n holding c[n]
ListOf(S, c) ==
    LET idx == SortedSeq(S)
    IN  [n \in 1..Len(idx) |->
            [path |-> PathOrder[idx[n]], kind |-> c[idx[n]].kind,
             data |-> c[idx[n]].data]]

\* every sorted list of at most MaxFiles distinct paths with contents
FileLists(contents) ==
    UNION {{ListOf(S, c) : c \in [S -> contents]} :
              S \in {T \in SUBSET (1..Len(PathOrder)) : Cardinality(T) <= MaxFiles}}

\* a single path given on the command line
OneFile(contents) == {fl \in FileLists(contents) : Len(fl) = 1}

ArgChoices(t) ==
    CASE t = "sysex_pack" ->
            [in_dir : BOOLEAN, input : BOOLEAN, out : BOOLEAN, limit : {0}]
      [] t = "dump_layer_filters" ->
            [in_dir : {TRUE}, input : {FALSE}, out : {TRUE}, limit : 0..2]
      [] t = "batch_parse_sysex" ->
            {[in_dir |-> TRUE, input |-> FALSE, out |-> TRUE, limit |-> 0],
             [in_dir |-> FALSE, input |-> TRUE, out |-> TRUE, limit |-> 0]}
      [] t = "proteus_preset_decode" ->
            {[in_dir |-> FALSE, input |-> TRUE, out |-> FALSE, limit |-> 0]}
      [] OTHER ->
            {[in_dir |-> TRUE, input |-> FALSE, out |-> TRUE, limit |-> 0]}

FileChoices(t, a) ==
    LET contents == IF t \in {"sysex_pack", "batch_parse_sysex"}
                    THEN SyxContents ELSE BinContents
    IN  IF a.in_dir THEN FileLists(contents)
        ELSE IF a.input THEN OneFile(contents)
        ELSE {<<>>}

InitBatch ==
    /\ pc = "batch"
    /\ tool \in Tools
    /\ args \in ArgChoices(tool)
    /\ files \in FileChoices(tool, args)
    /\ devspec \in (IF tool = "sysex_pack" THEN {Proteus, NoSpec} ELSE {NoSpec})
    /\ models \in (IF tool = "sysex_pack" THEN {NoModels, AllModels} ELSE {NoModels})
    /\ given = <<>> /\ entries = <<>>
    /\ packed = NotPacked /\ scanned = NotScanned /\ sidecar = NoSidecar
    /\ fileIdx = 0 /\ outputs = <<>> /\ tally = 0 /\ errors = 0
    /\ ret = "" /\ status = Running
    /\ ExtractIdle /\ UnpackIdle /\ CoefIdle

\* the file of the iteration the loop is at
CurFile == files[fileIdx + 1]

\* one file written, or one item collected, by the iteration over file
\* number `from` (0 for what is written after the loop)
Out(name, ext, from, body) == [name |-> name, ext |-> ext, from |-> from, body |-> body]

\* lines 414-419 / 438-442: the record list of one input file
PipelineEntries(data, spec, mdl) ==
    augment_with_zmf1(
        segment_assembled(assemble_preset(canonize(extract_frames(data), spec))),
        mdl)

\* read_syx and the pipeline up to pack for file f; err names the exception
\* that leaves it
ProcessSyx(f, spec, mdl) ==
    IF f.kind # "file" THEN [err |-> "OSError", entries |-> <<>>, bytes |-> <<>>]
    ELSE LET es == PipelineEntries(f.data, spec, mdl)
             out == pack(es)
         IN  [err |-> out.err, entries |-> es, bytes |-> out.bytes]

\* the container and the sidecar written for a processed file
Written(name, from, r) ==
    <<Out(name, "bin", from, r.bytes),
      Out(name, "json", from, write_sidecar_json(r.entries).entries)>>

\* an exception nobody catches: traceback, exit status 1
Uncaught ==
    /\ pc' = "exited" /\ status' = 1
    /\ UNCHANGED <<fileIdx, outputs, tally, errors, ret>>

\* sysex_pack.main, lines 433-435: `return 2`; the `__main__` block calls
\* main() and drops what it returns
SysexPackUsage ==
    /\ pc = "batch" /\ tool = "sysex_pack"
    /\ ~args.in_dir /\ (~args.input \/ ~args.out)
    /\ ret' = "2" /\ status' = 0 /\ pc' = "exited"
    /\ UNCHANGED <<tool, args, files, fileIdx, outputs, tally, errors,
                   extractVars, recordVars, unpackVars, coefVars>>

\* sysex_pack.main, lines 437-450: single-file mode
SysexPackSingle ==
    /\ pc = "batch" /\ tool = "sysex_pack"
    /\ ~args.in_dir /\ args.input /\ args.out
    /\ LET r == ProcessSyx(files[1], devspec, models)
       IN  IF r.err # "" THEN Uncaught
           ELSE /\ outputs' = Written(<<0>>, 1, r)
                /\ ret' = "None" /\ status' = 0 /\ pc' = "exited"
                /\ UNCHANGED <<fileIdx, tally, errors>>
    /\ UNCHANGED <<tool, args, files, extractVars, recordVars, unpackVars, coefVars>>

\* sysex_pack.main, lines 411-429: one iteration of the directory loop
SysexPackDirFile ==
    /\ pc = "batch" /\ tool = "sysex_pack"
    /\ args.in_dir /\ fileIdx < Len(files)
    /\ IF CurFile.kind = "directory"
       THEN /\ fileIdx' = fileIdx + 1
            /\ UNCHANGED <<pc, outputs, tally, errors, ret, status>>
       ELSE LET r == ProcessSyx(CurFile, devspec, models)
            IN  IF r.err # "" THEN Uncaught
                ELSE /\ outputs' = outputs \o Written(<<CurFile.path[2]>>, fileIdx + 1, r)
                     /\ tally' = tally + 1
                     /\ fileIdx' = fileIdx + 1
                     /\ UNCHANGED <<pc, errors, ret, status>>
    /\ UNCHANGED <<tool, args, files, extractVars, recordVars, unpackVars, coefVars>>

\* sysex_pack.main, lines 430-431: `return 0` after the loop
SysexPackDirDone ==
    /\ pc = "batch" /\ tool = "sysex_pack"
    /\ args.in_dir /\ fileIdx = Len(files)
    /\ ret' = "0" /\ status' = 0 /\ pc' = "exited"
    /\ UNCHANGED <<tool, args, files, fileIdx, outputs, tally, errors,
                   extractVars, recordVars, unpackVars, coefVars>>

\* `any(x['type']==0x10 and x['sub']==s for x in e)`
HasTyped(rows, s) == \E k \in 1..Len(rows) : rows[k].type = 16 /\ rows[k].sub = s

\* pack_index.main, lines 29-42: one iteration
PackIndexFile ==
    /\ pc = "batch" /\ tool = "pack_index"
    /\ fileIdx < Len(files)
    /\ IF CurFile.kind # "file" THEN Uncaught
       ELSE LET e == scan_pack(CurFile.data)
            IN  CASE e.status = "error" -> Uncaught
                  [] e.status = "none" ->
                        /\ fileIdx' = fileIdx + 1
                        /\ UNCHANGED <<pc, outputs, tally, errors, ret, status>>
                  [] OTHER ->
                        /\ tally' = tally + 1
                        /\ outputs' = Append(outputs,
                               Out(CurFile.path, "packs", fileIdx + 1,
                                   [entries |-> e.entries,
                                    has_layer_filter |-> HasTyped(e.entries, 34),
                                    has_assembled |-> HasTyped(e.entries, 254)]))
                        /\ fileIdx' = fileIdx + 1
                        /\ UNCHANGED <<pc, errors, ret, status>>
    /\ UNCHANGED <<tool, args, files, extractVars, recordVars, unpackVars, coefVars>>

\* how many of the collected packs have the flag set (`with_sub22 += ...`)
CountOutputs(flag) == Len(SelectSeq(outputs, LAMBDA o : o.body[flag]))

\* pack_index.main, lines 43-52: the index is written; main returns None
PackIndexDone ==
    /\ pc = "batch" /\ tool = "pack_index"
    /\ fileIdx = Len(files)
    /\ outputs' = Append(outputs,
           Out(<<0>>, "index.json", 0,
               [total_packs |-> tally,
                with_layer_filter |-> CountOutputs("has_layer_filter"),
                with_assembled |-> CountOutputs("has_assembled")]))
    /\ ret' = "None" /\ status' = 0 /\ pc' = "exited"
    /\ UNCHANGED <<tool, args, files, fileIdx, tally, errors,
                   extractVars, recordVars, unpackVars, coefVars>>

\* dump_layer_filters.main, lines 44-47: one iteration; `break` once
\* len(samples) >= args.limit
DumpFile ==
    /\ pc = "batch" /\ tool = "dump_layer_filters"
    /\ fileIdx < Len(files)
    /\ IF CurFile.kind # "file" THEN Uncaught
       ELSE LET r == dump_layer_filters_scan_pack(CurFile.data, CurFile.path)
            IN  IF r.status = "error" THEN Uncaught
                ELSE /\ outputs' = outputs \o
                         [k \in 1..Len(r.items) |->
                             Out(CurFile.path, "items", fileIdx + 1, r.items[k])]
                     /\ tally' = tally + Len(r.items)
                     /\ fileIdx' = fileIdx + 1
                     /\ pc' = IF tally' >= args.limit THEN "break" ELSE pc
                     /\ UNCHANGED <<errors, ret, status>>
    /\ UNCHANGED <<tool, args, files, extractVars, recordVars, unpackVars, coefVars>>

\* dump_layer_filters.main, lines 49-54: the samples are written
DumpDone ==
    /\ tool = "dump_layer_filters"
    /\ (pc = "batch" /\ fileIdx = Len(files)) \/ pc = "break"
    /\ outputs' = Append(outputs, Out(<<0>>, "samples.json", 0, [count |-> tally]))
    /\ ret' = "None" /\ status' = 0 /\ pc' = "exited"
    /\ UNCHANGED <<tool, args, files, fileIdx, tally, errors,
                   extractVars, recordVars, unpackVars, coefVars>>

\* proteus_preset_decode.main on sys.argv[1]; SystemExit with a message
\* ends the process with status 1
DecodePack ==
    /\ pc = "batch" /\ tool = "proteus_preset_decode"
    /\ IF files[1].kind # "file" THEN Uncaught
       ELSE LET r == read_pack(files[1].data)
                info == DecodeInfo(files[1].data, r.entries)
            IN  IF r.status # "ok" \/ info.status # "ok" THEN Uncaught
                ELSE /\ outputs' = <<Out(files[1].path, "info", 1,
                                         [entries |-> r.entries, info |-> info])>>
                     /\ ret' = "None" /\ status' = 0 /\ pc' = "exited"
                     /\ UNCHANGED <<fileIdx, tally, errors>>
    /\ UNCHANGED <<tool, args, files, extractVars, recordVars, unpackVars, coefVars>>

\* batch_parse_sysex, lines 38-40: nothing matched; main exits with 1
BatchParseNoFiles ==
    /\ pc = "batch" /\ tool = "batch_parse_sysex"
    /\ files = <<>>
    /\ ret' = "False" /\ status' = 1 /\ pc' = "exited"
    /\ UNCHANGED <<tool, args, files, fileIdx, outputs, tally, errors,
                   extractVars, recordVars, unpackVars, coefVars>>

\* batch_parse_sysex, lines 48-59: one iteration; an exception is caught,
\* printed and counted
BatchParseFile ==
    /\ pc = "batch" /\ tool = "batch_parse_sysex"
    /\ fileIdx < Len(files)
    /\ LET r == IF CurFile.kind # "file" THEN [err |-> "OSError", rows |-> <<>>]
                ELSE parse_sysex_file(CurFile.data, CurFile.path)
       IN  IF r.err # ""
           THEN /\ errors' = errors + 1
                /\ UNCHANGED <<outputs, tally>>
           ELSE /\ outputs' = outputs \o
                    [k \in 1..Len(r.rows) |->
                        Out(CurFile.path, "rows", fileIdx + 1, r.rows[k])]
                /\ tally' = tally + 1
                /\ UNCHANGED errors
    /\ fileIdx' = fileIdx + 1
    /\ UNCHANGED <<pc, ret, status, tool, args, files,
                   extractVars, recordVars, unpackVars, coefVars>>

\* batch_parse_sysex, lines 61-110, and main's sys.exit(0 if success else 1)
BatchParseDone ==
    /\ pc = "batch" /\ tool = "batch_parse_sysex"
    /\ files # <<>> /\ fileIdx = Len(files)
    /\ LET all_rows == [k \in 1..Len(outputs) |-> outputs[k].body]
       IN  IF all_rows = <<>>
           THEN ret' = "False" /\ status' = 1 /\ UNCHANGED outputs
           ELSE /\ outputs' = Append(outputs,
                       Out(<<0>>, "csv", 0, MergedSorted(all_rows)))
                /\ ret' = "True" /\ status' = 0
    /\ pc' = "exited"
    /\ UNCHANGED <<tool, args, files, fileIdx, tally, errors,
                   extractVars, recordVars, unpackVars, coefVars>>

NextBatch ==
    \/ SysexPackUsage
    \/ SysexPackSingle
    \/ SysexPackDirFile
    \/ SysexPackDirDone
    \/ PackIndexFile
    \/ PackIndexDone
    \/ DumpFile
    \/ DumpDone
    \/ DecodePack
    \/ BatchParseNoFiles
    \/ BatchParseFile
    \/ BatchParseDone

SpecBatch == InitBatch /\ [][NextBatch]_vars

----------------------------------------------------------------------------
(* Error handling of the command-line tools                                *)

\* a file whose first four bytes are not 'ZPK1', or whose version field is
\* not 1
Malformed(f) ==
    /\ f.kind = "file"
    /\ \/ Slice(f.data, 0, 4) # MAGIC
       \/ Len(f.data) >= 6 /\ UIntAt(f.data, 4, 2) # 1

ReaderTools == {"pack_index", "dump_layer_filters", "proteus_preset_decode"}

\* C13: a malformed container produces no entries in any of the three
\* readers, and in the two batch readers (pack_index, dump_layer_filters) a
\* malformed file does not stop the scan of the files after it: nothing a
\* reader collects comes from a malformed file, and a batch reader that left
\* files unscanned did not stop at a malformed one.
C13_MalformedContainerYieldsNothing ==
    tool \in ReaderTools =>
        /\ \A k \in 1..Len(outputs) :
               outputs[k].from >= 1 => ~Malformed(files[outputs[k].from])
        /\ (tool # "proteus_preset_decode" /\ pc = "exited" /\ status # 0)
               => ~Malformed(CurFile)

\* the packer was invoked without --in-dir and without both an input path
\* and --out
UsageError == tool = "sysex_pack" /\ ~args.in_dir /\ (~args.input \/ ~args.out)

\* C14: when the packer is invoked without --in-dir and without both an
\* input path and --out the process exits with status 2, and a run of the
\* packer that succeeded exits with status 0.
C14_UsageErrorExitsWithTwo ==
    (tool = "sysex_pack" /\ pc = "exited") =>
        /\ UsageError => status = 2
        /\ (~UsageError /\ ret \in {"0", "None"}) => status = 0

\* a run over the files matched in a directory
BatchRun ==
    \/ tool = "sysex_pack" /\ args.in_dir
    \/ tool = "batch_parse_sysex"

\* C15: in a batch run over files f1..fn an error raised while processing
\* file fi (read, decode or pack) is caught and every later file is still
\* processed: when the run has ended, the loop has gone through all n files.
C15_BatchContinuesPastErrors ==
    (BatchRun /\ pc = "exited") => fileIdx = Len(files)

\* the tools that go through a set of matched files and report on them
BatchTools == {"sysex_pack", "batch_parse_sysex", "pack_index"}

\* C16: a batch tool (sysex_pack in directory mode, batch_parse_sysex,
\* pack_index) exits with status 0 only if at least one input file was
\* processed successfully; a run in which none was, the empty match set
\* included, exits non-zero.
C16_BatchExitStatus ==
    (tool \in BatchTools /\ (tool = "sysex_pack" => args.in_dir)
        /\ pc = "exited" /\ status = 0) => tally >= 1

\* C17: in directory mode of the packer any two distinct matched input files
\* are written to distinct output paths: two writes to the same output path
\* (name and extension) come from the same input file.
C17_SingleProducerPerOutput ==
    (tool = "sysex_pack" /\ args.in_dir) =>
        \A k, l \in 1..Len(outputs) :
            (outputs[k].name = outputs[l].name /\ outputs[k].ext = outputs[l].ext)
                => outputs[k].from = outputs[l].from

----------------------------------------------------------------------------
(* The sidecar next to the container                                       *)

\* C18: for every record list the packer writes out, the sidecar's count is
\* the container's count, its k-th entry has the id, type, subtype, flags and
\* length of the container's k-th table row, and an entry carries raw bytes
\* exactly when its (type, subtype, length) is (0x10, 0x22, 14); the bytes
\* are then the row's data in the container.
C18_SidecarConsistency ==
    pc \in {"packed", "scanned"} =>
        /\ sidecar.written
        /\ sidecar.count = UIntAt(packed.bytes, 6, 2)
        /\ Len(sidecar.entries) = Len(Table)
        /\ \A k \in 1..Len(Table) :
              LET s == sidecar.entries[k]
                  t == Table[k]
              IN  /\ s.id = t.id /\ s.type = t.type /\ s.sub = t.sub
                  /\ s.flags = t.flags /\ s.length = t.length
                  /\ s.hasBytes <=> (t.type = 16 /\ t.sub = 34 /\ t.length = 14)
                  /\ s.hasBytes => s.bytes = RowData(packed.bytes, t)

\* three records packed: a layer-filter record with its bytes in the sidecar,
\* and two that differ from it in the length or the type and have none
C18_Witness ==
    /\ pc = "packed"
    /\ Len(sidecar.entries) = 3
    /\ sidecar.entries[1].hasBytes /\ sidecar.entries[1].bytes = Filler(14, 0)
    /\ sidecar.entries[2].sub = 34 /\ sidecar.entries[2].length = 15
    /\ ~sidecar.entries[2].hasBytes
    /\ sidecar.entries[3].type = 18 /\ sidecar.entries[3].length = 14
    /\ ~sidecar.entries[3].hasBytes
    /\ sidecar.entries[3].id = 510

----------------------------------------------------------------------------
(* The coefficient blobs of the pipeline                                   *)

----------------------------------------------------------------------------
(* When the assembler appends its record                                   *)

\* the payload kept for sequence number q: that of the last packet of es
\* carrying q
KeptPayload(es, q) ==
    LET last == CHOOSE k \in Packets(es) :
                    /\ PacketSeq(es[k].data) = q
                    /\ \A m \in Packets(es) : PacketSeq(es[m].data) = q => m <= k
    IN  SubSeq(es[last].data, 3, Len(es[last].data) - 1)

\* the kept payloads for the sequence numbers lo and above, in ascending
\* order of sequence number
RECURSIVE ConcatKept(_, _)
ConcatKept(es, lo) ==
    LET seqs == {PacketSeq(es[k].data) : k \in {m \in Packets(es) : PacketSeq(es[m].data) >= lo}}
    IN  IF seqs = {} THEN <<>>
        ELSE LET q == CHOOSE x \in seqs : \A y \in seqs : x <= y
             IN  KeptPayload(es, q) \o ConcatKept(es, q + 1)

\* exactly one record was appended: type 0x10, subtype 0xFE, data the
\* concatenation, id one above the largest id of the list (ids are >= 0)
OneAssembled ==
    /\ Len(Appended) = 1
    /\ Appended[1].type = 16 /\ Appended[1].sub = 254
    /\ Appended[1].data = ConcatKept(given, 0)
    /\ \A k \in 1..Len(given) : given[k].id < Appended[1].id
    /\ \/ Appended[1].id = 1 /\ given = <<>>
       \/ \E k \in 1..Len(given) : Appended[1].id = given[k].id + 1

\* C20 (as claimed): assemble_preset appends exactly one synthetic record
\* (type 0x10, subtype 0xFE, data the concatenation, id max + 1) whenever at
\* least one continuation packet (type 0x10, subtype 0x02 or 0x04, data
\* length >= 3) was collected, and appends nothing when none was.
C20_AssembledWheneverCollected ==
    pc = "assembled" =>
        /\ SubSeq(entries, 1, Len(given)) = given
        /\ IF Packets(given) # {} THEN OneAssembled ELSE Appended = <<>>

\* C20 (amended): assemble_preset appends exactly one synthetic record (type
\* 0x10, subtype 0xFE, data the concatenation, id max + 1) whenever the
\* concatenation of the collected payloads is not empty, and appends nothing
\* otherwise: when no continuation packet was collected, and when every
\* payload kept is empty (packets of exactly three data bytes).
C20_AssembledWhenNonEmpty ==
    pc = "assembled" =>
        /\ SubSeq(entries, 1, Len(given)) = given
        /\ IF ConcatKept(given, 0) # <<>> THEN OneAssembled ELSE Appended = <<>>

\* a header, a packet with an empty payload and a packet with one byte of
\* payload: one record with that byte and id 3 is appended
C20_Witness ==
    /\ pc = "assembled"
    /\ Len(given) = 3
    /\ Packets(given) = {2, 3}
    /\ Len(given[2].data) = 3 /\ Len(given[3].data) = 4
    /\ Len(Appended) = 1
    /\ Appended[1].id = 3
    /\ Appended[1].data = <<given[3].data[3]>>

\* packets were collected, all with empty payloads, and nothing is appended
C20_WitnessNothingAppended ==
    /\ pc = "assembled"
    /\ Packets(given) = {1, 2}
    /\ Appended = <<>>

----------------------------------------------------------------------------
(* The assembler on the packets of several presets                         *)

\* most presets in a file, and most continuation packets of one preset
MaxPresets == 2
MaxPerPreset == 2

\* a preset as it is dumped: its header, then its continuation packets, each
\* with one byte of payload and sequence number 2, 4 or 130
PresetSeqBytes == {<<2, 0>>, <<4, 0>>, <<2, 1>>}

PresetChoice(seqs) ==
    <<[kind |-> "header", seq |-> <<1, 0>>, len |-> 0]>>
        \o [n \in 1..Len(seqs) |-> [kind |-> "packet", seq |-> seqs[n], len |-> 1]]

InitPresets ==
    /\ pc = "canonized"
    /\ \E presets \in SeqsUpTo(SeqsUpTo(PresetSeqBytes, MaxPerPreset) \ {<<>>}, MaxPresets) :
           LET pick == Concat([p \in 1..Len(presets) |-> PresetChoice(presets[p])])
           IN  entries = [k \in 1..Len(pick) |-> AsmRecord(k, pick[k])]
    /\ given = <<>>
    /\ devspec = Proteus /\ models = NoModels
    /\ packed = NotPacked /\ scanned = NotScanned /\ sidecar = NoSidecar
    /\ ExtractIdle /\ UnpackIdle /\ CoefIdle /\ BatchIdle

NextPresets == AssemblePreset

SpecPresets == InitPresets /\ [][NextPresets]_vars

\* positions in the list es of the header records
Headers(es) == {k \in 1..Len(es) : es[k].type = 16 /\ SubOrZero(es[k]) \in {1, 3}}

\* the records of the preset whose header is at position h: the header and
\* what follows it up to the next header
PresetSlice(es, h) ==
    LET later == {k \in Headers(es) : k > h}
        stop == IF later = {} THEN Len(es) + 1
                ELSE CHOOSE k \in later : \A m \in later : k <= m
    IN  SubSeq(es, h, stop - 1)

\* C21: when the record list holds the continuation packets of k presets (k
\* header records, each followed by its own packets), the assembler appends
\* k assembled blobs, the j-th the ordered concatenation of the packets of
\* the j-th preset only.
C21_OneBlobPerPreset ==
    pc = "assembled" =>
        LET hs == SortedSeq(Headers(given))
        IN  /\ Len(Appended) = Len(hs)
            /\ \A j \in 1..Len(hs) :
                   /\ Appended[j].sub = 254
                   /\ Appended[j].data = ConcatKept(PresetSlice(given, hs[j]), 0)

----------------------------------------------------------------------------
(* Packets with the same sequence number                                   *)

\* the bytes of the assembled blob, none when no record was appended
BlobBytes == IF Appended = <<>> THEN {} ELSE {Appended[1].data[n] : n \in 1..Len(Appended[1].data)}

\* a later packet of es has the sequence number of the packet at k
Overwritten(es, k) ==
    \E m \in Packets(es) : m > k /\ PacketSeq(es[m].data) = PacketSeq(es[k].data)

\* C22: when two or more continuation packets compute the same sequence
\* number, only the payload of the one that is last in the record list is in
\* the assembled blob, at the place of that sequence number; the payloads of
\* the earlier ones are absent.  (The payload bytes of the packets differ.)
C22_LastDuplicateWins ==
    (pc = "assembled" /\ ~DistinctSeqs(given)) =>
        /\ \A k \in Packets(given) :
               \A n \in 3..(Len(given[k].data) - 1) :
                   (given[k].data[n] \in BlobBytes) <=> ~Overwritten(given, k)
        /\ Appended # <<>> => Appended[1].data = ConcatKept(given, 0)

\* packets with sequence numbers 2, 4, 2: the blob is the third packet's
\* payload followed by the second's, without the first's
C22_Witness ==
    /\ pc = "assembled"
    /\ Len(given) = 3 /\ Packets(given) = {1, 2, 3}
    /\ PacketSeq(given[1].data) = 2 /\ PacketSeq(given[2].data) = 4
    /\ PacketSeq(given[3].data) = 2
    /\ \A k \in 1..3 : Len(given[k].data) = 4
    /\ Appended[1].data = <<given[3].data[3], given[2].data[3]>>
    /\ given[1].data[3] \notin BlobBytes

----------------------------------------------------------------------------
(* segment_assembled on lists with any number of headers and blobs         *)

\* most records in a list given to the segmenter
MaxSegRecs == 3

\* the record with id n of each kind: closed headers with layerFilterCount 1
\* and 2, an open header, a closed header of 16 bytes, a closed header with
\* all counts 0, assembled blobs of 14, 28 and 13 bytes, a continuation packet
SegRecord(kind, n) ==
    CASE kind = 1 -> Rec(n, 16, 0, 1, HeaderData(1, 17, 1, 0), "canonical", "invalid", 0, -1, "")
      [] kind = 2 -> Rec(n, 16, 0, 1, HeaderData(1, 19, 2, 0), "canonical", "invalid", 0, -1, "")
      [] kind = 3 -> Rec(n, 16, 0, 3, HeaderData(3, 17, 1, 0), "canonical", "invalid", 0, -1, "")
      [] kind = 4 -> Rec(n, 16, 0, 1, HeaderData(1, 16, 1, 0), "canonical", "invalid", 0, -1, "")
      [] kind = 5 -> Rec(n, 16, 0, 1, HeaderData(1, 17, 0, 0), "canonical", "invalid", 0, -1, "")
      [] kind = 6 -> Rec(n, 16, 0, 254, Filler(14, n), "assembled", "n/a", -1, -1, "")
      [] kind = 7 -> Rec(n, 16, 0, 254, Filler(28, n), "assembled", "n/a", -1, -1, "")
      [] kind = 8 -> Rec(n, 16, 0, 254, Filler(13, n), "assembled", "n/a", -1, -1, "")
      [] OTHER -> Rec(n, 16, 0, 2, <<2, 0, 9, 0>>, "canonical", "invalid", 0, -1, "")

InitSegList ==
    /\ pc = "assembled"
    /\ \E pick \in SeqsUpTo(1..9, MaxSegRecs) :
           entries = [k \in 1..Len(pick) |-> SegRecord(pick[k], k - 1)]
    /\ given = <<>>
    /\ devspec = Proteus /\ models = NoModels
    /\ packed = NotPacked /\ scanned = NotScanned /\ sidecar = NoSidecar
    /\ ExtractIdle /\ UnpackIdle /\ CoefIdle /\ BatchIdle

NextSegList == SegmentAssembled

SpecSegList == InitSegList /\ [][NextSegList]_vars

\* positions in the list es of the assembled records
Assembleds(es) == {k \in 1..Len(es) : es[k].type = 16 /\ SubOrZero(es[k]) = 254}

\* C23: if the record list does not hold exactly one header record and
\* exactly one assembled record (none, or more than one, of either),
\* segment_assembled returns the list unchanged.
C23_SegmenterNeedsExactlyOne ==
    (/\ pc = "segmented"
     /\ ~(Cardinality(Headers(given)) = 1 /\ Cardinality(Assembleds(given)) = 1)) =>
        entries = given

\* the header and the blob segment_assembled works on
SegHeader == given[FirstTyped(given, 1)].data
SegBlob == given[FirstTyped(given, 254)].data

\* need = 14 * layerFilterCount + 92 * layerEnvelopeCount of a header of at
\* least 17 bytes
SegNeed == 14 * SegHeader[14] + 92 * SegHeader[16]

\* C24: if the header record's data is shorter than 17 bytes, or need =
\* 14 * layerFilterCount + 92 * layerEnvelopeCount is 0, or need exceeds the
\* length of the assembled blob, segment_assembled appends nothing and leaves
\* every record as it was.
C24_SegmenterNoOp ==
    (/\ pc = "segmented"
     /\ FirstTyped(given, 1) # 0 /\ FirstTyped(given, 254) # 0
     /\ \/ Len(SegHeader) < 17
        \/ SegNeed = 0
        \/ SegNeed > Len(SegBlob)) =>
        entries = given

\* a header of 16 bytes with a blob long enough for its counts
C24_Witness ==
    /\ pc = "segmented"
    /\ Len(given) = 3
    /\ FirstTyped(given, 1) = 1 /\ FirstTyped(given, 254) = 3
    /\ Len(SegHeader) = 16 /\ SegHeader[14] = 1
    /\ Len(SegBlob) = 14
    /\ entries = given

\* a header that asks for 14 + 92 bytes of a blob of 92
C24_WitnessNeedTooLarge ==
    /\ pc = "segmented"
    /\ FirstTyped(given, 1) # 0 /\ FirstTyped(given, 254) # 0
    /\ Len(SegHeader) = 17 /\ SegHeader[14] = 1 /\ SegHeader[16] = 1
    /\ Len(SegBlob) = 92
    /\ entries = given

\* a header with both counts 0
C24_WitnessNeedZero ==
    /\ pc = "segmented"
    /\ FirstTyped(given, 1) # 0 /\ FirstTyped(given, 254) # 0
    /\ Len(SegHeader) >= 17 /\ SegNeed = 0
    /\ entries = given

\* the one element of a set with one element
TheOnly(S) == CHOOSE x \in S : TRUE

\* C25: a header record of either subtype (closed 0x01 or open 0x03) serves
\* as the segmenter's input: with a single header record carrying valid
\* counts n and m and an assembled blob of at least need = 14n + 92m > 0
\* bytes, segment_assembled appends the n layer-filter records carved from
\* the blob, for an open header just as for a closed one.
C25_EitherHeaderKindSegments ==
    (/\ pc = "segmented"
     /\ Cardinality(Headers(given)) = 1
     /\ Cardinality(Assembleds(given)) = 1) =>
        LET hdr == given[TheOnly(Headers(given))].data
            blob == given[TheOnly(Assembleds(given))].data
            n == hdr[14]
            need == 14 * n + 92 * hdr[16]
        IN  (Len(hdr) >= 17 /\ 0 < need /\ need <= Len(blob)) =>
                /\ Len(entries) = Len(given) + n
                /\ \A k \in 1..n :
                      /\ entries[Len(given) + k].sub = 34
                      /\ entries[Len(given) + k].data =
                             SubSeq(blob, Len(blob) - need + 14 * (k - 1) + 1,
                                    Len(blob) - need + 14 * k)

----------------------------------------------------------------------------
(* Record ids and the lists of the stages                                  *)

\* the pipeline has produced `entries` from `given` by one of the appending
\* stages
AfterStage == pc \in {"assembled", "segmented", "augmented"}

C26_WitnessGap ==
    /\ pc = "assembled"
    /\ Len(given) = 1 /\ given[1].id = 1
    /\ Len(entries) = 2 /\ entries[2].id = 2

\* the fields of a record the container stores
Stored(e) == <<e.id, e.type, e.sub, e.flags, e.data>>

\* C27: each of assemble_preset, segment_assembled and augment_with_zmf1
\* returns a list of which its input list is a prefix, every record of the
\* input keeping its id, type, subtype, flags and data; a stage only appends.
C27_StagesOnlyAppend ==
    AfterStage =>
        /\ Len(entries) >= Len(given)
        /\ \A k \in 1..Len(given) : Stored(entries[k]) = Stored(given[k])

\* the segmenter appended a record after the three it was given
C27_Witness ==
    /\ pc = "segmented"
    /\ Len(given) = 3 /\ Len(entries) = 4
    /\ entries[4].kind = "heuristic"
    /\ Stored(entries[3]) = Stored(given[3])

\* the augmenter appended a blob
C27_WitnessAugmented ==
    /\ pc = "augmented"
    /\ Len(entries) = Len(given) + 1
    /\ entries[Len(entries)].kind = "zmf1"

----------------------------------------------------------------------------
(* The batch readers on containers of the packer, whole and cut short      *)

\* most records in a container given to the readers
MaxDumpRecs == 2

\* `--limit`, default 20
DefaultLimit == 20

\* 14 bytes of a layer-filter record with the tilt byte t
LayerFilterData(t, n) == [k \in 1..14 |-> IF k = 6 THEN t ELSE 10 * (n + 1) + k]

\* the record with id n of each kind: layer-filter records with tilt bytes
\* 0x7F, 0x80 and 0xC8, records that differ from one in the length or the
\* type, and a continuation packet
DumpRecord(kind, n) ==
    CASE kind = 1 -> Rec(n, 16, 0, 34, LayerFilterData(127, n), "heuristic", "n/a", -1, 0, "")
      [] kind = 2 -> Rec(n, 16, 0, 34, LayerFilterData(128, n), "heuristic", "n/a", -1, 0, "")
      [] kind = 3 -> Rec(n, 16, 0, 34, LayerFilterData(200, n), "heuristic", "n/a", -1, 0, "")
      [] kind = 4 -> Rec(n, 16, 0, 34, LayerFilterData(200, n) \o <<1>>, "canonical", "valid", 0, -1, "")
      [] kind = 5 -> Rec(n, 18, 0, 34, LayerFilterData(200, n), "canonical", "valid", 0, -1, "")
      [] OTHER -> Rec(n, 16, 0, 2, <<2, 0, 9, 0>>, "canonical", "invalid", 0, -1, "")

\* the containers pack writes for the lists of up to MaxDumpRecs records
DumpPacks ==
    {pack([k \in 1..Len(pick) |-> DumpRecord(pick[k], k - 1)]).bytes :
        pick \in SeqsUpTo(1..6, MaxDumpRecs)}

\* a container whole, and cut after 4 and 7 bytes, inside the entry table
\* and one byte before its end
Cuts(b) ==
    {b, Slice(b, 0, 4), Slice(b, 0, 7),
     Slice(b, 0, HeaderSize + UIntAt(b, 6, 2) * EntrySize - 1),
     Slice(b, 0, Len(b) - 1)}

InitReaders ==
    /\ pc = "batch"
    /\ tool \in {"pack_index", "dump_layer_filters"}
    /\ args = [in_dir |-> TRUE, input |-> FALSE, out |-> TRUE,
               limit |-> IF tool = "dump_layer_filters" THEN DefaultLimit ELSE 0]
    /\ \E b \in DumpPacks : \E d \in Cuts(b) : \E more \in BOOLEAN :
           files = <<[path |-> <<2, 1>>, kind |-> "file", data |-> d]>>
                     \o (IF more THEN <<[path |-> <<2, 2>>, kind |-> "file",
                                         data |-> GoodPack]>>
                         ELSE <<>>)
    /\ devspec = NoSpec /\ models = NoModels
    /\ given = <<>> /\ entries = <<>>
    /\ packed = NotPacked /\ scanned = NotScanned /\ sidecar = NoSidecar
    /\ fileIdx = 0 /\ outputs = <<>> /\ tally = 0 /\ errors = 0
    /\ ret = "" /\ status = Running
    /\ ExtractIdle /\ UnpackIdle /\ CoefIdle

NextReaders ==
    \/ PackIndexFile
    \/ PackIndexDone
    \/ DumpFile
    \/ DumpDone

SpecReaders == InitReaders /\ [][NextReaders]_vars

\* the table rows of the container b
RowsOf(b) ==
    [k \in 1..UIntAt(b, 6, 2) |-> ScanRow(b, HeaderSize + (k - 1) * EntrySize)]

\* b has its whole table and the data of every entry
Whole(b) ==
    /\ Len(b) >= HeaderSize
    /\ Len(b) >= HeaderSize + UIntAt(b, 6, 2) * EntrySize
    /\ \A k \in 1..Len(RowsOf(b)) :
           RowsOf(b)[k].offset + RowsOf(b)[k].length <= Len(b)

\* the items collected from file number n
ItemsFrom(n) == SelectSeq(outputs, LAMBDA o : o.from = n /\ o.ext = "items")

\* C28: from a container the layer-filter reader returns one item for
\* exactly the table entries with type 0x10, subtype 0x22 and length 14, in
\* table order; an entry of that type and subtype with another length is
\* skipped and the entries after it are still scanned; byte 5 of an
\* extracted record is decoded as a signed two's-complement tilt in
\* -128..127 and bytes 6..13 are the 8 reserved bytes.
C28_LayerFilterExtraction ==
    (tool = "dump_layer_filters" /\ fileIdx >= 1 /\ Whole(files[1].data)) =>
        LET b == files[1].data
            want == SelectSeq(RowsOf(b),
                        LAMBDA r : r.type = 16 /\ r.sub = 34 /\ r.length = 14)
            got == ItemsFrom(1)
        IN  /\ Len(got) = Len(want)
            /\ \A k \in 1..Len(want) :
                   LET item == got[k].body
                       rec == SubSeq(b, want[k].offset + 1, want[k].offset + 14)
                   IN  /\ item.id = want[k].id
                       /\ item.bytes = rec
                       /\ item.decode.tilt \in -128..127
                       /\ (item.decode.tilt - rec[6]) % 256 = 0
                       /\ item.decode.reserved = SubSeq(rec, 7, 14)

\* a 15-byte entry of type 0x10 and subtype 0x22 is skipped and the entry
\* after it, with tilt byte 0xC8, is extracted with tilt -56
C28_Witness ==
    /\ tool = "dump_layer_filters" /\ fileIdx >= 1 /\ Whole(files[1].data)
    /\ Len(RowsOf(files[1].data)) = 2
    /\ RowsOf(files[1].data)[1].sub = 34 /\ RowsOf(files[1].data)[1].length = 15
    /\ Len(ItemsFrom(1)) = 1
    /\ ItemsFrom(1)[1].body.id = 1
    /\ ItemsFrom(1)[1].body.decode.tilt = -56
    /\ Len(ItemsFrom(1)[1].body.decode.reserved) = 8

\* tilt bytes 0x7F and 0x80 decode to 127 and -128
C28_WitnessBoundary ==
    /\ tool = "dump_layer_filters" /\ fileIdx >= 1
    /\ Len(ItemsFrom(1)) = 2
    /\ ItemsFrom(1)[1].body.decode.tilt = 127
    /\ ItemsFrom(1)[2].body.decode.tilt = -128

\* the magic is 'ZPK1' and the version, where the buffer holds it, is 1
ValidMagicAndVersion(b) ==
    /\ Slice(b, 0, 4) = MAGIC
    /\ Len(b) >= 6 => UIntAt(b, 4, 2) = 1

\* C29: for a buffer with valid magic and version whose entry table is cut
\* short (a buffer of 4..7 bytes included) or whose entries reach beyond the
\* end of the buffer, the batch readers (pack_index.scan_pack,
\* dump_layer_filters.scan_pack) return a result without raising, so the
\* batch loop goes on with the next file: a run over such files scans all of
\* them and ends with status 0.
C29_TruncatedContainerTolerated ==
    (/\ tool \in {"pack_index", "dump_layer_filters"}
     /\ pc = "exited"
     /\ \A n \in 1..Len(files) : ValidMagicAndVersion(files[n].data)) =>
        /\ status = 0
        /\ fileIdx = Len(files)

----------------------------------------------------------------------------
(* The subtype byte of the records canonize makes                          *)

\* C30: every record canonize produces for a subtype-carrying command keeps
\* the subtype as data[0], so for every continuation record the assembler
\* merges in the pipeline the sequence number is subtype | (data[1] << 7):
\* it is 0x02 or 0x04 modulo 128, and never 0 or 1.
C30_SubtypeByteInData ==
    /\ pc = "canonized" =>
           \A k \in 1..Len(entries) :
               entries[k].sub >= 0 =>
                   /\ entries[k].data # <<>>
                   /\ entries[k].data[1] = entries[k].sub
    /\ pc = "assembled" =>
           \A k \in Packets(given) :
               LET d == given[k].data
               IN  /\ PacketSeq(d) = BitOr(given[k].sub, Shl(d[2], 7))
                   /\ PacketSeq(d) % 128 \in {2, 4}
                   /\ PacketSeq(d) \notin {0, 1}

\* packets of subtypes 0x02 and 0x04 were merged, with the sequence numbers
\* 2 and 4
C30_Witness ==
    /\ pc = "assembled"
    /\ Packets(given) = {1, 2}
    /\ given[1].sub = 2 /\ PacketSeq(given[1].data) = 2
    /\ given[2].sub = 4 /\ PacketSeq(given[2].data) = 4
    /\ Len(Appended) = 1

====
